---- MODULE Spec2Model ----
(***************************************************************************)
(* A model of the execution engine of task-maker-rust: the executor's      *)
(* client loop and worker threads (src/executor/executor.rs), the client   *)
(* (task-maker-exec/src/client.rs) and the scheduler and DAG validator,    *)
(* whose code is not part of the sources at hand and is modelled from      *)
(* sections 4.1, 4.4 and 4.7 of the specification.                         *)
(*                                                                         *)
(* Every step of a thread is one critical section of the state mutex: the  *)
(* handlers of executor.rs are split where the code releases the lock.     *)
(***************************************************************************)
EXTENDS Integers, Sequences, FiniteSets, TLC

\* ------------------------------------------------------------------ bounds

\* Executions of a DAG are 1..n with n <= MaxExecs.
MaxExecs == 3
\* Worker connections.
NumWorkers == 2
\* Dependencies (stdin and inputs) of one execution.
MaxDeps == 2

Execs == 1..MaxExecs
Workers == 1..NumWorkers
\* File 0 is the file the client provides; file e is the stdout of execution e.
ProvidedFile == 0
Files == 0..MaxExecs
NoExec == 0
NoDag == [n |-> 0 - 1]

\* ------------------------------------------------------------ the DAG model

\* ExecutionDAGData: executions 1..n, deps[e] the file uuids execution e reads
\* (stdin and inputs), outs[e] the file uuids it produces, provided the keys of
\* provided_files.
DagExecs(d) == 1..d.n

Outputs(d, e) == d.outs[e]

Dependencies(d, e) == d.deps[e]

Producers(d, f) == {e \in DagExecs(d) : f \in Outputs(d, e)}

ProducedFiles(d) == {f \in Files : Producers(d, f) # {}}

KnownFiles(d) == d.provided \cup ProducedFiles(d)

\* The callback registrations of the client: every file the DAG names.
WatchedFiles(d) == KnownFiles(d)

\* -------------------------------------------------------------- check_dag

\* A validator that does not count an execution's own outputs.
Removable_IgnoresSelf(d, done) ==
  {e \in DagExecs(d) \ done :
     \A f \in Dependencies(d, e) :
        f \in d.provided \/ Producers(d, f) \subseteq done \cup {e}}

\* Kahn's algorithm on the executions: Removable(d, done) are the executions all
\* of whose dependencies are provided or produced by an execution of done.
Removable(d, done) ==
  {e \in DagExecs(d) \ done :
     \A f \in Dependencies(d, e) :
        f \in d.provided \/ Producers(d, f) \subseteq done}

RECURSIVE KahnRemoved(_, _)
KahnRemoved(d, done) ==
  IF Removable(d, done) = {} THEN done
  ELSE KahnRemoved(d, done \cup Removable(d, done))

\* check_dag: "ok" or the first error of section 4.1, in its order.
check_dag(d) ==
  IF \E e \in DagExecs(d) : \E f \in Dependencies(d, e) : f \notin KnownFiles(d)
    THEN "MissingDependency"
  ELSE IF \E f \in Files :
            Cardinality(Producers(d, f)) + (IF f \in d.provided THEN 1 ELSE 0) > 1
    THEN "DuplicateProducer"
  ELSE IF KahnRemoved(d, {}) # DagExecs(d)
    THEN "DependencyCycle"
  ELSE "ok"

\* ------------------------------------------------------------------ state

VARIABLES
  dag,              \* ExecutorData.dag: NoDag or the DAG under evaluation
  client_sender,    \* ExecutorData.client_sender is Some
  waiting_workers,  \* ExecutorData.waiting_workers: worker -> slot (NoExec: empty)
  ready_execs,      \* ExecutorData.ready_execs: the heap, as a descending sequence
  missing_deps,     \* ExecutorData.missing_deps: execution -> count
  dependents,       \* ExecutorData.dependents: file -> executions, in push order
  file_keys,        \* files whose bytes exist on the executor: file -> success
  toClient,         \* every message sent on the executor-to-client channel, in order
  toServer,         \* the messages of the client-to-executor channel not yet read
  epc,              \* position of Executor::evaluate
  efiles,           \* the provided files Executor::evaluate has still to mark ready
  check_result,     \* what check_dag returned to Executor::evaluate ("none": not called)
  wpc,              \* position of each worker and of its worker_thread
  wres,             \* the WorkerResult a worker_thread is handling
  wjob,             \* the execution a worker_thread took from the slot
  cpc,              \* position of ExecutorClient::evaluate
  cread,            \* number of messages of toClient the client has read
  missing_files,    \* the client's missing_files: -1 is None
  written,          \* destinations of write_to the client created
  allow_failure,    \* WriteToCallback.allow_failure of the DAG's registrations
  local_store,      \* files whose key the client's file store holds
  cdag              \* the client's dag (NoDag before evaluate is called)

\* The state of the parts of the program the specification Spec leaves alone.
VARIABLES
  server_gone,      \* every sender of the executor-to-client channel is dropped
  closed_seen,      \* the threads whose receive failed on a closed channel
  file_mode,        \* the thread that holds the mutex file_mode, or "free"
  done,             \* the flag the status poller tests
  ppc,              \* the position of the status poller thread
  tpc,              \* the position of evaluate's loop in the AskFile arm
  tchunks,          \* the chunks of the file still to send
  asks_left,        \* the AskFile messages the server will still send
  execution_callbacks, \* dag.execution_callbacks: on_start, on_done, on_skip lists
  write_to,         \* the files whose FileCallbacks has a write_to
  get_content,      \* the files whose FileCallbacks has a get_content
  fired,            \* how many times each registration was called
  cerror,           \* the registration whose error evaluate returned, or << >>
  cache,            \* the Result Cache: the stored status of an execution
  outcome,          \* what the command of each execution does in the sandbox
  sandbox_runs,     \* the sandbox invocations of the current evaluation
  run,              \* the evaluations of the DAG started so far
  first,            \* what the first evaluation reported
  replayed,         \* the executions the current evaluation took from the cache
  bad_sent,         \* the frames sent that deserialize to no message
  bad_seen,         \* the threads whose deserialize_from failed on a frame
  provide_sent,     \* the client has sent its ProvideFile
  provided_seen,    \* the ProvideFile messages the executor has received
  status_sent,      \* the Status messages the client has sent
  status_states,    \* the scheduler state at each Status reply
  box_log,          \* the sandbox runs: execution, worker, whether the sandbox erred, result
  language,         \* the language of the SourceFile ("none": not constructed)
  executable,       \* SourceFile.executable is Some
  compilations,     \* the compilation executions execute has added to the DAG
  returned,         \* the first element of what each execute call returned
  box_state,        \* the Sandbox: "none" before Sandbox::new, "live", "dropped"
  box_execution,    \* the limits, config and outputs of the Sandbox's execution
  clones,           \* the clones of the Sandbox that are alive
  keep_sandbox,     \* SandboxData.keep_sandbox
  boxdir,           \* the sandbox directory on disk
  command,          \* the limit arguments of the last command line built
  reg_order,        \* the registered workers, in the order of their GetWork
  slot_job,         \* the Option<Work> in the slot of each worker
  slot_lock,        \* the holder of the mutex of each slot
  hpc,              \* the position of wait_for_work of each worker
  got,              \* what wait_for_work returned
  fpc,              \* the position of the assignment of schedule()
  spurious,         \* the spurious wake-ups of the condition variables so far
  locked_sends,     \* the messages written to the client channel by a thread holding the state mutex
  pf_in,            \* process_provided_file: the registration, success and the frames of the channel
  pf_pc,            \* process_provided_file: the place in the function
  pf_pos,           \* the frames of the channel already read
  pf_file,          \* file is Some: the destination is open for writing
  pf_dest,          \* the destination path on disk
  pf_buffer,        \* buffer.len()
  pf_called,        \* the get_content handler was called
  pf_read           \* the frame the loop of evaluate read after the function returned

\* The threads that receive: a worker_thread is named by its worker.
ExecutorThread == 0
ClientThread == NumWorkers + 1

closeVars == <<server_gone, closed_seen>>
transferVars == <<file_mode, done, ppc, tpc, tchunks, asks_left>>
callbackVars == <<execution_callbacks, write_to, get_content, fired, cerror>>
cacheVars == <<cache, outcome, sandbox_runs, run, first, replayed>>
frameVars == <<bad_sent, bad_seen>>
provideVars == <<provide_sent, provided_seen>>
statusVars == <<status_sent, status_states>>
sandboxVars == <<box_log>>
sourceVars == <<language, executable, compilations, returned>>
boxVars == <<box_state, box_execution, clones, keep_sandbox, boxdir, command>>
fifoVars == <<reg_order>>
wakeVars == <<slot_job, slot_lock, hpc, got, fpc, spurious>>
lockVars == <<locked_sends>>
streamVars == <<pf_in, pf_pc, pf_pos, pf_file, pf_dest, pf_buffer, pf_called, pf_read>>
auxVars == <<closeVars, transferVars, callbackVars, cacheVars, frameVars, provideVars,
             statusVars, sandboxVars, sourceVars, boxVars, fifoVars, wakeVars, lockVars,
             streamVars>>
notCloseVars == <<transferVars, callbackVars, cacheVars, frameVars, provideVars,
                  statusVars, sandboxVars, sourceVars, boxVars, fifoVars, wakeVars,
                  lockVars, streamVars>>
notTransferVars == <<closeVars, callbackVars, cacheVars, frameVars, provideVars,
                     statusVars, sandboxVars, sourceVars, boxVars, fifoVars, wakeVars,
                     lockVars, streamVars>>
notCallbackVars == <<closeVars, transferVars, cacheVars, frameVars, provideVars,
                     statusVars, sandboxVars, sourceVars, boxVars, fifoVars, wakeVars,
                     lockVars, streamVars>>
notCacheVars == <<closeVars, transferVars, callbackVars, frameVars, provideVars,
                  statusVars, sandboxVars, sourceVars, boxVars, fifoVars, wakeVars,
                  lockVars, streamVars>>
notFrameVars == <<closeVars, transferVars, callbackVars, cacheVars, provideVars,
                  statusVars, sandboxVars, sourceVars, boxVars, fifoVars, wakeVars,
                  lockVars, streamVars>>
notProvideVars == <<closeVars, transferVars, callbackVars, cacheVars, frameVars,
                    statusVars, sandboxVars, sourceVars, boxVars, fifoVars, wakeVars,
                    lockVars, streamVars>>
notStatusVars == <<closeVars, transferVars, callbackVars, cacheVars, frameVars,
                   provideVars, sandboxVars, sourceVars, boxVars, fifoVars, wakeVars,
                   lockVars, streamVars>>
notSandboxVars == <<closeVars, transferVars, callbackVars, cacheVars, frameVars,
                    provideVars, statusVars, sourceVars, boxVars, fifoVars, wakeVars,
                    lockVars, streamVars>>
notSourceVars == <<closeVars, transferVars, callbackVars, cacheVars, frameVars,
                   provideVars, statusVars, sandboxVars, boxVars, fifoVars, wakeVars,
                   lockVars, streamVars>>
notBoxVars == <<closeVars, transferVars, callbackVars, cacheVars, frameVars, provideVars,
                statusVars, sandboxVars, sourceVars, fifoVars, wakeVars, lockVars,
                streamVars>>
notFifoVars == <<closeVars, transferVars, callbackVars, cacheVars, frameVars,
                 provideVars, statusVars, sandboxVars, sourceVars, boxVars, wakeVars,
                 lockVars, streamVars>>
notWakeVars == <<closeVars, transferVars, callbackVars, cacheVars, frameVars,
                 provideVars, statusVars, sandboxVars, sourceVars, boxVars, fifoVars,
                 lockVars, streamVars>>
notLockVars == <<closeVars, transferVars, callbackVars, cacheVars, frameVars,
                 provideVars, statusVars, sandboxVars, sourceVars, boxVars, fifoVars,
                 wakeVars, streamVars>>
notStreamVars == <<closeVars, transferVars, callbackVars, cacheVars, frameVars,
                   provideVars, statusVars, sandboxVars, sourceVars, boxVars, fifoVars,
                   wakeVars, lockVars>>

\* The executions and files with callbacks, the registrations of a list and
\* the messages the client receives in a run.
CbExecs == 1
MaxCbFile == 1
MaxRegs == 2
MaxMessages == 3

CbFiles == 0..MaxCbFile
ExecKinds == {"on_start", "on_done", "on_skip"}

\* The registrations: the i-th callback of a list of an execution, the
\* write_to and the get_content of a file, and the status callback.
StatusCallback == <<"status", 0, 1>>
Regs ==
  (ExecKinds \X (1..CbExecs) \X (1..MaxRegs))
    \cup ({"write_to", "get_content"} \X CbFiles \X {1})
    \cup {StatusCallback}
NoError == << >>

\* The AskFile messages of a run and the chunks of a file.
MaxAsks == 2
MaxChunks == 2
\* The Status messages the poller sends in a run.
MaxStatus == 3

AuxInit ==
  /\ server_gone = FALSE
  /\ closed_seen = {}
  /\ file_mode = "free"
  /\ done = FALSE
  /\ ppc = "test"
  /\ tpc = "recv"
  /\ tchunks = 0
  /\ asks_left = MaxAsks
  /\ execution_callbacks = [e \in 1..CbExecs |-> [k \in ExecKinds |-> << >>]]
  /\ write_to = {}
  /\ get_content = {}
  /\ fired = [r \in Regs |-> 0]
  /\ cerror = NoError
  /\ cache = << >>
  /\ outcome = [e \in Execs |-> TRUE]
  /\ sandbox_runs = 0
  /\ run = 0
  /\ first = [log |-> << >>, keys |-> << >>]
  /\ replayed = {}
  /\ bad_sent = 0
  /\ bad_seen = {}
  /\ provide_sent = FALSE
  /\ provided_seen = {}
  /\ status_sent = 0
  /\ status_states = << >>
  /\ box_log = {}
  /\ language = "none"
  /\ executable = FALSE
  /\ compilations = {}
  /\ returned = << >>
  /\ box_state = "none"
  /\ box_execution = [cpu_time |-> -1, sys_time |-> -1, wall_time |-> -1, extra_time |-> 0, read_only |-> FALSE, outputs |-> FALSE]
  /\ clones = 0
  /\ keep_sandbox = FALSE
  /\ boxdir = [exists |-> FALSE, box_mode |-> 0, box_files |-> {}, files |-> {}]
  /\ command = << >>
  /\ reg_order = << >>
  /\ slot_job = [w \in 1..NumWorkers |-> 0]
  /\ slot_lock = [w \in 1..NumWorkers |-> "free"]
  /\ hpc = [w \in 1..NumWorkers |-> "start"]
  /\ got = [w \in 1..NumWorkers |-> 0]
  /\ fpc = [pc |-> "idle", worker |-> 1, exec |-> 0]
  /\ spurious = 0
  /\ locked_sends = {}
  /\ pf_in = << >>
  /\ pf_pc = "idle"
  /\ pf_pos = 0
  /\ pf_file = FALSE
  /\ pf_dest = [state |-> "absent", mode |-> "none", size |-> 0]
  /\ pf_buffer = 0
  /\ pf_called = FALSE
  /\ pf_read = "none"

vars == <<dag, client_sender, waiting_workers, ready_execs, missing_deps,
          dependents, file_keys, toClient, toServer, epc, efiles, check_result, wpc,
          wres, wjob, cpc, cread, missing_files, written, allow_failure, local_store,
          cdag, auxVars>>

\* The scheduler state the operations below read and write, as one record.
Data ==
  [dag |-> dag, waiting_workers |-> waiting_workers, ready_execs |-> ready_execs,
   missing_deps |-> missing_deps, dependents |-> dependents,
   file_keys |-> file_keys, out |-> toClient]

SetData(s) ==
  /\ dag' = s.dag
  /\ waiting_workers' = s.waiting_workers
  /\ ready_execs' = s.ready_execs
  /\ missing_deps' = s.missing_deps
  /\ dependents' = s.dependents
  /\ file_keys' = s.file_keys
  /\ toClient' = s.out

\* ------------------------------------------------------------- helpers

\* A function without the key k.
Remove(f, k) == [x \in DOMAIN f \ {k} |-> f[x]]

\* A function with the key k set to v.
Insert(f, k, v) == [x \in DOMAIN f \cup {k} |-> IF x = k THEN v ELSE f[x]]

\* SetToSeq: the elements of a set of integers in ascending order.
RECURSIVE Ascending(_)
Ascending(S) ==
  IF S = {} THEN <<>>
  ELSE LET m == CHOOSE x \in S : \A y \in S : x <= y
       IN <<m>> \o Ascending(S \ {m})

\* BinaryHeap::push on the descending sequence (duplicates are kept).
RECURSIVE HeapPush(_, _)
HeapPush(h, e) ==
  IF h = <<>> THEN <<e>>
  ELSE IF e >= Head(h) THEN <<e>> \o h
  ELSE <<Head(h)>> \o HeapPush(Tail(h), e)

Send(s, m) == [s EXCEPT !.out = Append(@, m)]

\* ---------------------------------------------------------- the scheduler

\* The slots of the workers that hold an execution.
BusyWorkers(ww) == {w \in DOMAIN ww : ww[w] # NoExec}

FreeWorkers(ww) == {w \in DOMAIN ww : ww[w] = NoExec}

\* The tuples of Done: the watched files whose bytes exist, with their success.
DoneList(s) ==
  LET fs == Ascending(WatchedFiles(s.dag) \cap DOMAIN s.file_keys)
  IN [i \in 1..Len(fs) |-> [file |-> fs[i], success |-> s.file_keys[fs[i]]]]

\* Termination (section 4.4): a DAG exists, missing_deps and ready_execs are
\* empty and no worker slot is occupied. The DAG exists until Done is emitted.
IsComplete(s) ==
  /\ s.dag # NoDag
  /\ DOMAIN s.missing_deps = {}
  /\ s.ready_execs = <<>>
  /\ BusyWorkers(s.waiting_workers) = {}

\* A termination check that leaves the DAG in place once Done is emitted.
check_completion_KeepsDag(s) ==
  IF IsComplete(s) THEN Send(s, [type |-> "Done", files |-> DoneList(s)]) ELSE s

check_completion(s) ==
  IF IsComplete(s)
  THEN [Send(s, [type |-> "Done", files |-> DoneList(s)]) EXCEPT !.dag = NoDag]
  ELSE s

\* An assignment that leaves the execution in ready_execs.
Assign_NoPop(s, order) ==
  LET e == Head(s.ready_execs)
      free == FreeWorkers(s.waiting_workers)
      i == CHOOSE i \in 1..Len(order) :
             /\ order[i] \in free
             /\ \A j \in 1..(i - 1) : order[j] \notin free
      w == order[i]
  IN Send([s EXCEPT !.waiting_workers[w] = e],
          [type |-> "NotifyStart", exec |-> e, worker |-> w])

\* One assignment of schedule(): pop the heap (the greatest uuid), take the first
\* free worker of order, fill its slot and notify the client.
Assign(s, order) ==
  LET e == Head(s.ready_execs)
      free == FreeWorkers(s.waiting_workers)
      i == CHOOSE i \in 1..Len(order) :
             /\ order[i] \in free
             /\ \A j \in 1..(i - 1) : order[j] \notin free
      w == order[i]
  IN Send([s EXCEPT !.ready_execs = Tail(@), !.waiting_workers[w] = e],
          [type |-> "NotifyStart", exec |-> e, worker |-> w])

\* schedule(): while an execution is ready and a worker is free, assign.
\* order stands for the iteration order of the HashMap waiting_workers.
RECURSIVE schedule(_, _)
schedule(s, order) ==
  IF s.ready_execs # <<>> /\ FreeWorkers(s.waiting_workers) # {}
  THEN schedule(Assign(s, order), order)
  ELSE check_completion(s)

\* setup(dag): missing_deps counts the dependencies that are not yet ready,
\* dependents is the reverse index, and the executions with none are enqueued.
SetupCount(s, e) ==
  Cardinality({f \in Dependencies(s.dag, e) : f \notin DOMAIN s.file_keys})

RECURSIVE PushAll(_, _)
PushAll(h, es) ==
  IF es = <<>> THEN h ELSE PushAll(HeapPush(h, Head(es)), Tail(es))

setup(s) ==
  LET d == s.dag
      es == IF d = NoDag THEN {} ELSE DagExecs(d)
      waiting == {e \in es : SetupCount(s, e) > 0}
      fs == {f \in Files : \E e \in es : f \in Dependencies(d, e)}
  IN [s EXCEPT
        !.missing_deps = [e \in DOMAIN @ \cup waiting |->
                            IF e \in waiting THEN SetupCount(s, e) ELSE @[e]],
        !.dependents = [f \in fs |->
                          Ascending({e \in es : f \in Dependencies(d, e)})],
        !.ready_execs = PushAll(@, Ascending(es \ waiting))]

\* The decrement of file_ready for one dependent: an execution that is no longer
\* waiting (it was skipped) is left alone.
DepReady(s, e) ==
  IF e \notin DOMAIN s.missing_deps THEN s
  ELSE IF s.missing_deps[e] > 1
    THEN [s EXCEPT !.missing_deps[e] = @ - 1]
  ELSE [s EXCEPT !.missing_deps = Remove(@, e),
                 !.ready_execs = HeapPush(@, e)]

RECURSIVE DepsReady(_, _)
DepsReady(s, es) ==
  IF es = <<>> THEN s ELSE DepsReady(DepReady(s, Head(es)), Tail(es))

DependentsOf(s, f) == IF f \in DOMAIN s.dependents THEN s.dependents[f] ELSE <<>>

\* file_ready(file, key): record the key, decrement the dependents, schedule().
file_ready(s, f, order) ==
  schedule(DepsReady([s EXCEPT !.file_keys = Insert(@, f, TRUE)],
                     DependentsOf(s, f)),
           order)

RECURSIVE FilesReady(_, _, _)
FilesReady(s, fs, order) ==
  IF fs = <<>> THEN s
  ELSE FilesReady(file_ready(s, Head(fs), order), Tail(fs), order)

\* exec_succeeded(exec): file_ready for each declared output.
exec_succeeded(s, e, order) ==
  IF s.dag = NoDag THEN s
  ELSE FilesReady(s, Ascending(Outputs(s.dag, e)), order)

\* exec_skipped(exec) and file_failed(file): the cascade. A waiting execution
\* leaves missing_deps when it is skipped, the client is sent NotifySkip, and the
\* files it would have produced fail in turn; they have no bytes.
RECURSIVE exec_skipped(_, _)
RECURSIVE file_failed(_, _)
RECURSIVE ExecsSkipped(_, _)
RECURSIVE FilesFailed(_, _)
exec_skipped(s, e) ==
  IF e \notin DOMAIN s.missing_deps THEN s
  ELSE FilesFailed(Send([s EXCEPT !.missing_deps = Remove(@, e)],
                        [type |-> "NotifySkip", exec |-> e]),
                   Ascending(Outputs(s.dag, e)))

file_failed(s, f) == ExecsSkipped(s, DependentsOf(s, f))

ExecsSkipped(s, es) ==
  IF es = <<>> THEN s ELSE ExecsSkipped(exec_skipped(s, Head(es)), Tail(es))

FilesFailed(s, fs) ==
  IF fs = <<>> THEN s ELSE FilesFailed(file_failed(s, Head(fs)), Tail(fs))

\* The bytes a failed execution left: its outputs are known with success false.
RECURSIVE MarkFailed(_, _)
MarkFailed(s, fs) ==
  IF fs = <<>> THEN s
  ELSE MarkFailed([s EXCEPT !.file_keys = Insert(@, Head(fs), FALSE)], Tail(fs))

\* exec_failed(exec): the client was notified by the caller (NotifyDone with the
\* failure); file_failed for each output, then the termination check.
exec_failed(s, e) ==
  IF s.dag = NoDag THEN s
  ELSE LET outs == Ascending(Outputs(s.dag, e))
       IN check_completion(FilesFailed(MarkFailed(s, outs), outs))

\* ------------------------------------------------------- the DAGs submitted

\* The DAGs the client may submit: n executions; execution e reads at most
\* MaxDeps files among the outputs of the executions before it and its own
\* output (a self-loop), the first execution possibly the file the client
\* provides (whether it is provided or not); it produces its stdout and possibly
\* the stdout of the execution before it (a second producer).
DynDepsOf(n, e) ==
  IF e \in 1..n
  THEN {S \in SUBSET (IF e = 1 THEN 0..1 ELSE 1..e) : Cardinality(S) <= MaxDeps}
  ELSE {{}}

RECURSIVE DynDepsTo(_, _)
DynDepsTo(n, k) ==
  IF k = 0 THEN {<< >>}
  ELSE {Append(f, S) : f \in DynDepsTo(n, k - 1), S \in DynDepsOf(n, k)}

DynDeps(n) == DynDepsTo(n, MaxExecs)

DynOutsOf(n, e) ==
  IF e \in 1..n THEN {{e}, {e, e - 1} \ {ProvidedFile}} ELSE {{}}

RECURSIVE DynOutsTo(_, _)
DynOutsTo(n, k) ==
  IF k = 0 THEN {<< >>}
  ELSE {Append(g, S) : g \in DynOutsTo(n, k - 1), S \in DynOutsOf(n, k)}

DynOuts(n) == DynOutsTo(n, MaxExecs)

\* The provided files a DAG with dependencies f may declare: the provided
\* file is declared only when execution 1 reads it.
DynProvided(n, f) ==
  {q \in {{}, {ProvidedFile}} : q # {} => (n >= 1 /\ ProvidedFile \in f[1])}

DynDagsOf(n) ==
  UNION {{[n |-> n, deps |-> f, outs |-> g, provided |-> p] :
            g \in DynOuts(n), p \in DynProvided(n, f)} : f \in DynDeps(n)}

DynDags == UNION {DynDagsOf(n) : n \in 0..MaxExecs}

\* WorkerUuid orders: the iteration orders of waiting_workers.
Orders == {o \in [1..NumWorkers -> Workers] : \A w \in Workers : \E i \in 1..NumWorkers : o[i] = w}

\* ------------------------------------------------------------------- Init

Init ==
  /\ dag = NoDag
  /\ client_sender = FALSE
  /\ waiting_workers = << >>
  /\ ready_execs = << >>
  /\ missing_deps = << >>
  /\ dependents = << >>
  /\ file_keys = << >>
  /\ toClient = << >>
  /\ toServer = << >>
  /\ epc = "recv"
  /\ efiles = << >>
  /\ check_result = "none"
  /\ wpc = [w \in Workers |-> "idle"]
  /\ wres = [w \in Workers |-> TRUE]
  /\ wjob = [w \in Workers |-> NoExec]
  /\ cpc = "start"
  /\ cread = 0
  /\ missing_files = 0 - 1
  /\ written = {}
  /\ allow_failure = FALSE
  /\ local_store = {}
  /\ AuxInit
  /\ cdag = NoDag

clientVars == <<cpc, cread, missing_files, written, allow_failure, local_store,
               cdag>>
workerVars == <<wpc, wres, wjob>>
schedVars == <<dag, waiting_workers, ready_execs, missing_deps, dependents, file_keys>>

\* ------------------------------------------------------ Executor::evaluate

\* A handler that stores the DAG before it looks at what check_dag returned.
EvaluateRejected_StoresDag ==
  /\ epc = "recv" /\ toServer # << >> /\ Head(toServer).type = "Evaluate"
  /\ check_dag(Head(toServer).dag) # "ok"
  /\ dag' = Head(toServer).dag
  /\ client_sender' = TRUE
  /\ toClient' = Append(toClient, [type |-> "Error", error |-> check_dag(Head(toServer).dag)])
  /\ toServer' = Tail(toServer)
  /\ check_result' = check_dag(Head(toServer).dag)
  /\ epc' = "stopped"
  /\ UNCHANGED <<auxVars, waiting_workers, ready_execs, missing_deps, dependents, file_keys,
                 efiles, workerVars, clientVars>>

\* Evaluate(d) with a DAG check_dag rejects: Error is sent, the receiver is
\* dropped and the loop is left.
EvaluateRejected ==
  /\ epc = "recv" /\ toServer # << >> /\ Head(toServer).type = "Evaluate"
  /\ check_dag(Head(toServer).dag) # "ok"
  /\ toClient' = Append(toClient, [type |-> "Error", error |-> check_dag(Head(toServer).dag)])
  /\ toServer' = Tail(toServer)
  /\ check_result' = check_dag(Head(toServer).dag)
  /\ epc' = "stopped"
  /\ UNCHANGED <<auxVars, schedVars, client_sender, efiles, workerVars, clientVars>>

\* Evaluate(d) with a valid DAG, up to the release of the lock: the DAG and the
\* sender are stored and the provided files are listed.
EvaluateStore ==
  /\ epc = "recv" /\ toServer # << >> /\ Head(toServer).type = "Evaluate"
  /\ check_dag(Head(toServer).dag) = "ok"
  /\ dag' = Head(toServer).dag
  /\ client_sender' = TRUE
  /\ efiles' = Ascending(Head(toServer).dag.provided)
  /\ toServer' = Tail(toServer)
  /\ check_result' = "ok"
  /\ epc' = "setup"
  /\ UNCHANGED <<auxVars, waiting_workers, ready_execs, missing_deps, dependents, file_keys,
                 toClient, workerVars, clientVars>>

\* Scheduler::setup.
EvaluateSetup ==
  /\ epc = "setup"
  /\ SetData(setup(Data))
  /\ epc' = IF efiles = << >> THEN "sched" ELSE "files"
  /\ UNCHANGED <<auxVars, check_result, client_sender, toServer, efiles, workerVars, clientVars>>

\* Scheduler::file_ready for the next provided file.
EvaluateFileReady ==
  /\ epc = "files"
  /\ \E order \in Orders : SetData(file_ready(Data, Head(efiles), order))
  /\ efiles' = Tail(efiles)
  /\ epc' = IF Tail(efiles) = << >> THEN "sched" ELSE "files"
  /\ UNCHANGED <<auxVars, check_result, client_sender, toServer, workerVars, clientVars>>

\* Scheduler::schedule, and back to the receive.
EvaluateSchedule ==
  /\ epc = "sched"
  /\ \E order \in Orders : SetData(schedule(Data, order))
  /\ epc' = "recv"
  /\ UNCHANGED <<auxVars, check_result, client_sender, toServer, efiles, workerVars, clientVars>>

\* AskFile(uuid, key, success) of the client: the file is streamed back.
ServeAskFile ==
  /\ epc = "recv" /\ toServer # << >> /\ Head(toServer).type = "AskFile"
  /\ toClient' = Append(toClient, [type |-> "ProvideFile", file |-> Head(toServer).file,
                                   success |-> Head(toServer).success])
  /\ toServer' = Tail(toServer)
  /\ UNCHANGED <<auxVars, check_result, schedVars, client_sender, epc, efiles, workerVars, clientVars>>

\* ----------------------------------------------------------- worker_thread

\* GetWork: the worker is registered with an empty slot.
GetWork(w) ==
  /\ wpc[w] = "idle"
  /\ w \notin DOMAIN waiting_workers
  /\ waiting_workers' = Insert(waiting_workers, w, NoExec)
  /\ wpc' = [wpc EXCEPT ![w] = "registered"]
  /\ UNCHANGED <<auxVars, check_result, dag, client_sender, ready_execs, missing_deps, dependents, file_keys,
                 toClient, toServer, epc, efiles, wres, wjob, clientVars>>

\* A handler of GetWork that registers the worker and does not call schedule().
GetWorkSchedule_NoSchedule(w) ==
  /\ wpc[w] = "registered"
  /\ wpc' = [wpc EXCEPT ![w] = "waiting"]
  /\ UNCHANGED <<auxVars, check_result, schedVars, toClient, client_sender, toServer, epc, efiles,
                 wres, wjob, clientVars>>

\* GetWork: Scheduler::schedule.
GetWorkSchedule(w) ==
  /\ wpc[w] = "registered"
  /\ \E order \in Orders : SetData(schedule(Data, order))
  /\ wpc' = [wpc EXCEPT ![w] = "waiting"]
  /\ UNCHANGED <<auxVars, check_result, client_sender, toServer, epc, efiles, wres, wjob, clientVars>>

\* wait_for_work returns once the slot is filled, and Work is sent to the worker.
wait_for_work(w) ==
  /\ wpc[w] = "waiting"
  /\ w \in DOMAIN waiting_workers /\ waiting_workers[w] # NoExec
  /\ wpc' = [wpc EXCEPT ![w] = "running"]
  /\ UNCHANGED <<auxVars, check_result, schedVars, client_sender, toClient, toServer, epc, efiles, wres, wjob,
                 clientVars>>

\* A handler that leaves the worker, with its slot, in waiting_workers.
WorkerDone_KeepsWorker(w) ==
  /\ wpc[w] = "running"
  /\ w \in DOMAIN waiting_workers /\ waiting_workers[w] # NoExec
  /\ client_sender
  /\ \E result \in BOOLEAN :
       /\ wres' = [wres EXCEPT ![w] = result]
       /\ toClient' = Append(toClient, [type |-> "NotifyDone",
                                        exec |-> waiting_workers[w], result |-> result])
  /\ wjob' = [wjob EXCEPT ![w] = waiting_workers[w]]
  /\ wpc' = [wpc EXCEPT ![w] = "done"]
  /\ UNCHANGED <<auxVars, check_result, schedVars, client_sender, toServer, epc, efiles, clientVars>>

\* A handler that does not send NotifyDone.
WorkerDone_Silent(w) ==
  /\ wpc[w] = "running"
  /\ w \in DOMAIN waiting_workers /\ waiting_workers[w] # NoExec
  /\ client_sender
  /\ \E result \in BOOLEAN : wres' = [wres EXCEPT ![w] = result]
  /\ wjob' = [wjob EXCEPT ![w] = waiting_workers[w]]
  /\ waiting_workers' = Remove(waiting_workers, w)
  /\ wpc' = [wpc EXCEPT ![w] = "done"]
  /\ UNCHANGED <<auxVars, check_result, dag, client_sender, ready_execs, missing_deps, dependents, file_keys,
                 toClient, toServer, epc, efiles, clientVars>>

\* WorkerDone(result), under the lock: the execution is read from the slot, the
\* worker leaves waiting_workers and NotifyDone is sent.
WorkerDone(w) ==
  /\ wpc[w] = "running"
  /\ w \in DOMAIN waiting_workers /\ waiting_workers[w] # NoExec
  /\ client_sender
  /\ \E result \in BOOLEAN :
       /\ wres' = [wres EXCEPT ![w] = result]
       /\ toClient' = Append(toClient, [type |-> "NotifyDone",
                                        exec |-> waiting_workers[w], result |-> result])
  /\ wjob' = [wjob EXCEPT ![w] = waiting_workers[w]]
  /\ waiting_workers' = Remove(waiting_workers, w)
  /\ wpc' = [wpc EXCEPT ![w] = "done"]
  /\ UNCHANGED <<auxVars, check_result, dag, client_sender, ready_execs, missing_deps, dependents, file_keys,
                 toServer, epc, efiles, clientVars>>

\* A handler that takes every result for a success.
WorkerDoneExec_AlwaysSucceeded(w) ==
  /\ wpc[w] = "done"
  /\ \E order \in Orders : SetData(exec_succeeded(Data, wjob[w], order))
  /\ wpc' = [wpc EXCEPT ![w] = "idle"]
  /\ wjob' = [wjob EXCEPT ![w] = NoExec]
  /\ UNCHANGED <<auxVars, check_result, client_sender, toServer, epc, efiles, wres, clientVars>>

\* A handler that sends NotifyDone once the scheduler has been told, too.
WorkerDoneExec_NotifiesAfter(w) ==
  /\ wpc[w] = "done"
  /\ LET m == [type |-> "NotifyDone", exec |-> wjob[w], result |-> wres[w]]
     IN IF wres[w]
        THEN \E order \in Orders :
               SetData(Send(exec_succeeded(Data, wjob[w], order), m))
        ELSE SetData(Send(exec_failed(Data, wjob[w]), m))
  /\ wpc' = [wpc EXCEPT ![w] = "idle"]
  /\ wjob' = [wjob EXCEPT ![w] = NoExec]
  /\ UNCHANGED <<auxVars, check_result, client_sender, toServer, epc, efiles, wres, clientVars>>

\* WorkerDone(result), after the lock: exec_failed or exec_succeded.
WorkerDoneExec(w) ==
  /\ wpc[w] = "done"
  /\ IF wres[w]
     THEN \E order \in Orders : SetData(exec_succeeded(Data, wjob[w], order))
     ELSE SetData(exec_failed(Data, wjob[w]))
  /\ wpc' = [wpc EXCEPT ![w] = "idle"]
  /\ wjob' = [wjob EXCEPT ![w] = NoExec]
  /\ UNCHANGED <<auxVars, check_result, client_sender, toServer, epc, efiles, wres, clientVars>>

\* --------------------------------------------------- ExecutorClient::evaluate

\* The keys of the client's dag.file_callbacks: the files with a write_to.
file_callbacks == IF cdag = NoDag THEN {} ELSE WatchedFiles(cdag)

\* process_provided_file: the destinations created by delivering the files fs
\* with the given success to the write_to registrations.
process_provided_file(dests, cbs, af, f, success) ==
  IF f \in cbs /\ (success \/ af) THEN dests \cup {f} ELSE dests

\* The start of evaluate: the provided files are processed with success true
\* and Evaluate is sent.
ClientStartWith(dags) ==
  /\ cpc = "start"
  /\ \E d \in dags :
       /\ cdag' = d
       /\ written' = {f \in d.provided : f \in WatchedFiles(d)}
       /\ toServer' = Append(toServer, [type |-> "Evaluate", dag |-> d])
  /\ cpc' = "loop"
  /\ UNCHANGED <<auxVars, check_result, schedVars, client_sender, toClient, epc, efiles, workerVars,
                 cread, missing_files, local_store, allow_failure>>

ClientStart == ClientStartWith(DynDags)

NextMessage == toClient[cread + 1]

CanRead == cpc = "loop" /\ cread < Len(toClient)

\* NotifyStart, NotifyDone, NotifySkip: the callbacks of the execution are called.
ClientNotify ==
  /\ CanRead
  /\ NextMessage.type \in {"NotifyStart", "NotifyDone", "NotifySkip"}
  /\ cread' = cread + 1
  /\ UNCHANGED <<auxVars, check_result, schedVars, client_sender, toClient, toServer, epc, efiles, workerVars,
                 cpc, missing_files, written, allow_failure, local_store, cdag>>

\* Error: the loop is left.
ClientError ==
  /\ CanRead
  /\ NextMessage.type = "Error"
  /\ cread' = cread + 1
  /\ cpc' = "returned"
  /\ UNCHANGED <<auxVars, check_result, schedVars, client_sender, toClient, toServer, epc, efiles, workerVars,
                 missing_files, written, allow_failure, local_store, cdag>>

\* Done(result): each file whose key the local store holds is processed, the
\* others are asked for; the loop ends when none is missing.
RECURSIVE DoneWritten(_, _, _, _, _)
DoneWritten(dests, cbs, af, store, list) ==
  IF list = << >> THEN dests
  ELSE DoneWritten(IF Head(list).file \in store
                   THEN process_provided_file(dests, cbs, af, Head(list).file,
                                              Head(list).success)
                   ELSE dests,
                   cbs, af, store, Tail(list))

\* A client that asks for every file it has a callback for.
DoneAsks_AllCallbacks(store, list) ==
  SelectSeq([i \in 1..Len(Ascending(file_callbacks)) |->
               [type |-> "AskFile", file |-> Ascending(file_callbacks)[i],
                success |-> TRUE]],
            LAMBDA m : m.file \notin store)

DoneAsks(store, list) ==
  SelectSeq([i \in 1..Len(list) |-> [type |-> "AskFile", file |-> list[i].file,
                                     success |-> list[i].success]],
            LAMBDA m : m.file \notin store)

ClientDoneWith(stores) ==
  /\ CanRead
  /\ NextMessage.type = "Done"
  /\ \E store \in stores, af \in BOOLEAN :
       /\ local_store' = store
       /\ allow_failure' = af
       /\ written' = DoneWritten(written, file_callbacks, af, store, NextMessage.files)
       /\ toServer' = toServer \o DoneAsks(store, NextMessage.files)
       /\ missing_files' = Len(DoneAsks(store, NextMessage.files))
       /\ cpc' = IF Len(DoneAsks(store, NextMessage.files)) > 0 THEN "loop" ELSE "returned"
  /\ cread' = cread + 1
  /\ UNCHANGED <<auxVars, check_result, schedVars, client_sender, toClient, epc, efiles, workerVars,
                 cdag>>

ClientDone == ClientDoneWith({{}, Files})

\* ProvideFile(uuid, success): one missing file less, and the file is processed.
ClientProvideFile ==
  /\ CanRead
  /\ NextMessage.type = "ProvideFile"
  /\ missing_files' = IF missing_files >= 0 THEN missing_files - 1 ELSE missing_files
  /\ written' = process_provided_file(written, file_callbacks, allow_failure,
                                      NextMessage.file, NextMessage.success)
  /\ cpc' = IF missing_files' >= 0 /\ missing_files' <= 0 THEN "returned" ELSE "loop"
  /\ cread' = cread + 1
  /\ UNCHANGED <<auxVars, check_result, schedVars, client_sender, toClient, toServer, epc, efiles, workerVars,
                 allow_failure, local_store, cdag>>

\* -------------------------------------------------------------------- Next

Next ==
  \/ EvaluateRejected
  \/ EvaluateStore
  \/ EvaluateSetup
  \/ EvaluateFileReady
  \/ EvaluateSchedule
  \/ ServeAskFile
  \/ \E w \in Workers : GetWork(w)
  \/ \E w \in Workers : GetWorkSchedule(w)
  \/ \E w \in Workers : wait_for_work(w)
  \/ \E w \in Workers : WorkerDone(w)
  \/ \E w \in Workers : WorkerDoneExec(w)
  \/ ClientStart
  \/ ClientNotify
  \/ ClientError
  \/ ClientDone
  \/ ClientProvideFile

Spec == Init /\ [][Next]_vars
\* The threads that cannot take a step: the executor's loop is left or waits on
\* an empty channel, a worker_thread waits for its worker or in wait_for_work
\* for an assignment, the client has returned or waits for a message.
ExecutorBlocked == epc = "stopped" \/ (epc = "recv" /\ toServer = << >>)

WorkerBlocked(w) ==
  \/ wpc[w] = "idle" /\ w \in DOMAIN waiting_workers
  \/ /\ wpc[w] \in {"waiting", "running"}
     /\ ~(w \in DOMAIN waiting_workers /\ waiting_workers[w] # NoExec)
  \/ wpc[w] = "running" /\ ~client_sender

ClientBlocked == cpc = "returned" \/ (cpc = "loop" /\ cread = Len(toClient))

Quiescent == ExecutorBlocked /\ ClientBlocked /\ \A w \in Workers : WorkerBlocked(w)

\* ------------------------------------------------ check_dag on its own

\* Every DAG of at most MaxExecs executions: execution e reads at most MaxDeps
\* files, any of them, and produces its stdout and possibly the stdout of the
\* execution before it.
AllDepsOf(n, e) ==
  IF e \in 1..n THEN {S \in SUBSET Files : Cardinality(S) <= MaxDeps} ELSE {{}}

RECURSIVE AllDepsTo(_, _)
AllDepsTo(n, k) ==
  IF k = 0 THEN {<< >>}
  ELSE {Append(f, S) : f \in AllDepsTo(n, k - 1), S \in AllDepsOf(n, k)}

AllDeps(n) == AllDepsTo(n, MaxExecs)

AllDagsOf(n) ==
  {[n |-> n, deps |-> f, outs |-> g, provided |-> p] :
     f \in AllDeps(n), g \in DynOuts(n), p \in {{}, {ProvidedFile}}}

AllDags(m) == UNION {AllDagsOf(n) : n \in 0..m}

CheckInit ==
  /\ cdag \in AllDags(MaxExecs)
  /\ dag = NoDag
  /\ client_sender = FALSE
  /\ waiting_workers = << >>
  /\ ready_execs = << >>
  /\ missing_deps = << >>
  /\ dependents = << >>
  /\ file_keys = << >>
  /\ toClient = << >>
  /\ toServer = << >>
  /\ epc = "recv"
  /\ efiles = << >>
  /\ check_result = "none"
  /\ wpc = [w \in Workers |-> "idle"]
  /\ wres = [w \in Workers |-> TRUE]
  /\ wjob = [w \in Workers |-> NoExec]
  /\ cpc = "start"
  /\ cread = 0
  /\ missing_files = 0 - 1
  /\ written = {}
  /\ allow_failure = FALSE
  /\ local_store = {}
  /\ AuxInit

\* check_dag(&d) of Executor::evaluate, alone.
CheckDag ==
  /\ check_result = "none"
  /\ check_result' = check_dag(cdag)
  /\ UNCHANGED <<auxVars, schedVars, client_sender, toClient, toServer, epc, efiles, workerVars,
                 clientVars>>

CheckNext == CheckDag

CheckSpec == CheckInit /\ [][CheckNext]_vars

\* --------------------------------------- the executor-to-client channel

\* The positions of the messages of a type, and of those about an execution.
Sent(type) == {i \in 1..Len(toClient) : toClient[i].type = type}

SentFor(type, e) == {i \in Sent(type) : toClient[i].exec = e}

\* The terminal notifications of an execution.
Terminal(e) == SentFor("NotifyDone", e) \cup SentFor("NotifySkip", e)

Failed(e) == \E i \in SentFor("NotifyDone", e) : ~toClient[i].result

Succeeded(e) == \E i \in SentFor("NotifyDone", e) : toClient[i].result

\* The DAG the client submitted passed, or did not pass, check_dag.
Accepted == cdag # NoDag /\ check_dag(cdag) = "ok"

Rejected == cdag # NoDag /\ check_dag(cdag) # "ok"

\* The execution graph: u is a parent of e iff e reads an output of u.
Parents(d, e) == {u \in DagExecs(d) : Outputs(d, u) \cap Dependencies(d, e) # {}}

RECURSIVE Closure(_, _)
Closure(d, S) ==
  LET T == S \cup UNION {Parents(d, u) : u \in S}
  IN IF T = S THEN S ELSE Closure(d, T)

Ancestors(d, e) == Closure(d, Parents(d, e))

HasCycle(d) == \E e \in DagExecs(d) : e \in Ancestors(d, e)

\* The handler of the WorkerDone of execution e has not finished.
Handling(e) == \E w \in Workers : wpc[w] = "done" /\ wjob[w] = e

\* ------------------------------------------------------------------ claims

\* C1: for an accepted DAG the client receives, for each execution, at most one
\* NotifyStart and never two terminal notifications (NotifyDone or NotifySkip),
\* and once Done is emitted every execution has had exactly one.
C1_ExactlyOneTerminal ==
  Accepted =>
    \A e \in DagExecs(cdag) :
      /\ Cardinality(SentFor("NotifyStart", e)) <= 1
      /\ Cardinality(Terminal(e)) <= 1
      /\ Sent("Done") # {} => Cardinality(Terminal(e)) = 1

\* C2: an execution with an ancestor that terminated with a failure is never
\* ready, never in a worker's slot, never started and never done, and once the
\* handler of the failure has finished NotifySkip for it has been sent, once.
C2_SkipCascade ==
  Accepted =>
    \A e \in DagExecs(cdag) :
      (\E a \in Ancestors(cdag, e) : Failed(a)) =>
        /\ SentFor("NotifyStart", e) = {}
        /\ SentFor("NotifyDone", e) = {}
        /\ \A w \in DOMAIN waiting_workers : waiting_workers[w] # e
        /\ \A i \in 1..Len(ready_execs) : ready_execs[i] # e
        /\ \A w \in Workers : wjob[w] # e
        /\ Cardinality(SentFor("NotifySkip", e)) <= 1
        /\ (\E a \in Ancestors(cdag, e) : Failed(a) /\ ~Handling(a)) =>
              Cardinality(SentFor("NotifySkip", e)) = 1

C2_Witness ==
  /\ Accepted
  /\ \E e \in DagExecs(cdag) :
       \E a \in Ancestors(cdag, e) \ Parents(cdag, e) :
         Failed(a) /\ SentFor("NotifySkip", e) # {}

\* C3: an execution is skipped only if one of its ancestors failed, and an
\* execution none of whose ancestors failed has, once Done is emitted, received
\* NotifyStart and then NotifyDone.
C3_NeverSkipped ==
  Accepted =>
    \A e \in DagExecs(cdag) :
      /\ SentFor("NotifySkip", e) # {} => \E a \in Ancestors(cdag, e) : Failed(a)
      /\ (Sent("Done") # {} /\ \A a \in Ancestors(cdag, e) : ~Failed(a)) =>
            \E i \in SentFor("NotifyStart", e) :
              \E j \in SentFor("NotifyDone", e) : i < j

\* C4: once evaluate has returned after Done, the destination of a produced
\* file exists iff its producer succeeded, or allow_failure is set and the
\* producer had a terminal notification.
C4_WriteTo ==
  (Accepted /\ cpc = "returned" /\ Sent("Done") # {}) =>
    \A f \in ProducedFiles(cdag) :
      f \in written <=>
        \E e \in Producers(cdag, f) :
          Succeeded(e) \/ (allow_failure /\ Terminal(e) # {})

\* C5: for an accepted DAG, whenever no thread can take a step (the executor and
\* the client wait for a message, every worker_thread waits for an assignment)
\* Done has been emitted and evaluate has returned. Every step consumes a
\* message, advances a handler or moves a worker along its cycle, which takes a
\* new assignment each time round, so no run is infinite: under weak fairness
\* of the threads every run ends in such a state.
C5_Liveness ==
  (Accepted /\ Quiescent) => (Sent("Done") # {} /\ cpc = "returned")

C5_Witness ==
  /\ Accepted /\ Quiescent /\ cpc = "returned" /\ Sent("Done") # {}
  /\ \E e \in DagExecs(cdag) : Succeeded(e)
  /\ \E e \in DagExecs(cdag) : Failed(e)
  /\ \E e \in DagExecs(cdag) : SentFor("NotifySkip", e) # {}

\* C6: Done is emitted at most once, and only after every execution of the DAG
\* has reached a terminal state.
C6_DoneWhenComplete ==
  /\ Cardinality(Sent("Done")) <= 1
  /\ Accepted =>
       \A i \in Sent("Done") :
         \A e \in DagExecs(cdag) : \E j \in Terminal(e) : j < i

\* C7: the NotifyDone of an execution follows its NotifyStart, and no
\* NotifyStart, NotifyDone or NotifySkip follows Done.
C7_NotificationOrder ==
  /\ \A e \in Execs :
       \A j \in SentFor("NotifyDone", e) :
         \E i \in SentFor("NotifyStart", e) : i < j
  /\ \A i \in Sent("Done") :
       \A j \in Sent("NotifyStart") \cup Sent("NotifyDone") \cup Sent("NotifySkip") :
         j < i

C7_Witness ==
  /\ Sent("Done") # {}
  /\ Cardinality(Sent("NotifyDone")) >= 2
  /\ Sent("NotifySkip") # {}

\* C8: at most one ProvideFile is streamed for a file, and for a produced file
\* only after the NotifyDone of its producer.
C8_ProvideFile ==
  /\ \A f \in Files :
       Cardinality({i \in Sent("ProvideFile") : toClient[i].file = f}) <= 1
  /\ \A i \in Sent("ProvideFile") :
       \A e \in Producers(cdag, toClient[i].file) :
         \E j \in SentFor("NotifyDone", e) : j < i

C8_Witness ==
  \E i \in Sent("ProvideFile") :
    /\ Producers(cdag, toClient[i].file) # {}
    /\ Cardinality(Sent("ProvideFile")) >= 2

\* C9: for a DAG check_dag rejects, the only message the executor ever sends is
\* one Error, sent when it handles the Evaluate, and dag, missing_deps,
\* dependents and ready_execs stay as they were.
C9_Rejected ==
  Rejected =>
    /\ toClient \in {<< >>, <<[type |-> "Error", error |-> check_dag(cdag)]>>}
    /\ epc = "stopped" <=> Len(toClient) = 1
    /\ dag = NoDag
    /\ missing_deps = << >>
    /\ dependents = << >>
    /\ ready_execs = << >>

C9_Witness ==
  /\ Rejected
  /\ check_dag(cdag) = "MissingDependency"
  /\ Len(toClient) = 1
  /\ \E w \in Workers : wpc[w] = "waiting"
  /\ cpc = "returned"

\* C10: on the DAGs whose references resolve and whose files have one producer,
\* check_dag answers DependencyCycle exactly when the execution graph has a
\* cycle, and it never answers DependencyCycle for a DAG without one.
C10_Cycle ==
  check_result # "none" =>
    /\ check_result = "DependencyCycle" => HasCycle(cdag)
    /\ check_result \notin {"MissingDependency", "DuplicateProducer"} =>
         (check_result = "DependencyCycle" <=> HasCycle(cdag))

\* The two-execution cycle E1.stdin = E2.stdout, E2.stdin = E1.stdout.
C10_Witness ==
  /\ check_result = "DependencyCycle"
  /\ cdag.n = 2
  /\ cdag.deps[1] = {2} /\ cdag.deps[2] = {1}
  /\ cdag.outs[1] = {1} /\ cdag.outs[2] = {2}

\* C11: a DAG validation failure does not tear the executor down: once Error
\* has been sent, Executor::evaluate is still in its loop, reading the client
\* channel, so that a later Evaluate is handled.
C11_KeepsReading == Sent("Error") # {} => epc # "stopped"

\* C15: schedule() is idempotent: in every reachable state, a second schedule()
\* right after a first one changes nothing of the scheduler state (the slots of
\* the workers included) and sends nothing to the client, whatever the
\* iteration orders of the two calls.
C15_Idempotent ==
  \A o1 \in Orders : \A o2 \in Orders :
    schedule(schedule(Data, o1), o2) = schedule(Data, o1)

\* The first call assigns two executions to two workers.
C15_Witness ==
  /\ Len(ready_execs) >= 2
  /\ Cardinality(FreeWorkers(waiting_workers)) >= 2
  /\ \A o \in Orders : schedule(Data, o) # Data

\* No handler of the executor is between a change of the state and the
\* schedule() that follows it.
HandlersIdle ==
  /\ epc \in {"recv", "stopped"}
  /\ \A w \in Workers : wpc[w] \notin {"registered", "done"}

\* The NotifyStart messages a sequence of messages holds.
Starts(out) == {i \in 1..Len(out) : out[i].type = "NotifyStart"}

Min(a, b) == IF a <= b THEN a ELSE b

\* C16: schedule() is work-conserving: when it returns, ready_execs is empty or
\* no waiting worker has an empty slot, and with k free workers and n ready
\* executions it has dispatched min(k, n) of them; so whenever every handler
\* has made its call of schedule(), no ready execution waits beside a free
\* worker.
C16_WorkConserving ==
  /\ \A o \in Orders :
       LET r == schedule(Data, o)
       IN /\ r.ready_execs = << >> \/ FreeWorkers(r.waiting_workers) = {}
          /\ Cardinality(Starts(r.out)) - Cardinality(Starts(toClient))
               = Min(Cardinality(FreeWorkers(waiting_workers)), Len(ready_execs))
  /\ HandlersIdle => (ready_execs = << >> \/ FreeWorkers(waiting_workers) = {})

\* Two executions run at once while a third waits for a worker.
C16_Witness ==
  /\ HandlersIdle
  /\ Cardinality(BusyWorkers(waiting_workers)) = 2
  /\ ready_execs # << >>

\* ------------------------------------------------------ closed channels

\* The executions of the DAGs submitted where channels may close.
CloseExecs == 2

CloseDags == UNION {DynDagsOf(n) : n \in 0..CloseExecs}

CloseStart == ClientStartWith(CloseDags)

\* worker_thread, the receive fails with "receiving on a closed channel": the
\* worker, with its slot, leaves waiting_workers.
WorkerClosed(w) ==
  /\ wpc[w] \in {"idle", "running"}
  /\ waiting_workers' = Remove(waiting_workers, w)
  /\ wpc' = [wpc EXCEPT ![w] = "closed"]
  /\ closed_seen' = closed_seen \cup {w}
  /\ UNCHANGED <<notCloseVars, server_gone, check_result, dag, client_sender, ready_execs, missing_deps,
                 dependents, file_keys, toClient, toServer, epc, efiles, wres, wjob,
                 clientVars>>

\* worker_thread after the removal: Scheduler::schedule, and the thread ends.
WorkerClosedSchedule(w) ==
  /\ wpc[w] = "closed"
  /\ \E order \in Orders : SetData(schedule(Data, order))
  /\ wpc' = [wpc EXCEPT ![w] = "gone"]
  /\ UNCHANGED <<auxVars, check_result, client_sender, toServer, epc, efiles, wres, wjob,
                 clientVars>>

\* GetWork, the worker is gone when Work is sent: serialize_into(..).unwrap()
\* panics and the thread ends with the worker, and its slot, in waiting_workers.
WorkSendFails(w) ==
  /\ wpc[w] = "waiting"
  /\ w \in DOMAIN waiting_workers /\ waiting_workers[w] # NoExec
  /\ wpc' = [wpc EXCEPT ![w] = "panicked"]
  /\ UNCHANGED <<auxVars, check_result, schedVars, client_sender, toClient, toServer, epc,
                 efiles, wres, wjob, clientVars>>

\* The client has returned: its senders are dropped.
ClientGone == cpc \in {"returned", "failed"}

\* An Executor::evaluate that takes the closed channel for any other error.
ExecutorClosed_KeepsReceiving ==
  /\ epc = "recv" /\ toServer = << >> /\ ClientGone
  /\ closed_seen' = closed_seen \cup {ExecutorThread}
  /\ UNCHANGED <<notCloseVars, server_gone, check_result, schedVars, client_sender, toClient, toServer, epc,
                 efiles, workerVars, clientVars>>

\* Executor::evaluate, the receive fails with "receiving on a closed channel":
\* the loop is left and Ok(()) returned.
ExecutorClosed ==
  /\ epc = "recv" /\ toServer = << >> /\ ClientGone
  /\ epc' = "stopped"
  /\ closed_seen' = closed_seen \cup {ExecutorThread}
  /\ UNCHANGED <<notCloseVars, server_gone, check_result, schedVars, client_sender, toClient, toServer,
                 efiles, workerVars, clientVars>>

\* The server is gone: its process has ended and every sender of the channel
\* to the client is dropped; what was sent before can still be received.
ServerGone ==
  /\ ~server_gone /\ cpc = "loop"
  /\ server_gone' = TRUE
  /\ epc' = "killed"
  /\ wpc' = [w \in Workers |-> "killed"]
  /\ UNCHANGED <<notCloseVars, closed_seen, check_result, schedVars, client_sender, toClient, toServer,
                 efiles, wres, wjob, clientVars>>

\* ExecutorClient::evaluate, the receive fails with "receiving on a closed
\* channel": the loop is left, the poller joined and Ok(()) returned.
ClientClosed ==
  /\ cpc = "loop" /\ cread = Len(toClient) /\ server_gone
  /\ cpc' = "returned"
  /\ closed_seen' = closed_seen \cup {ClientThread}
  /\ UNCHANGED <<notCloseVars, server_gone, check_result, schedVars, client_sender, toClient, toServer, epc,
                 efiles, workerVars, cread, missing_files, written, allow_failure,
                 local_store, cdag>>

CloseNext ==
  \/ EvaluateRejected
  \/ EvaluateStore
  \/ EvaluateSetup
  \/ EvaluateFileReady
  \/ EvaluateSchedule
  \/ ServeAskFile
  \/ \E w \in Workers : GetWork(w)
  \/ \E w \in Workers : GetWorkSchedule(w)
  \/ \E w \in Workers : wait_for_work(w)
  \/ \E w \in Workers : WorkerDone(w)
  \/ \E w \in Workers : WorkerDoneExec(w)
  \/ \E w \in Workers : WorkerClosed(w)
  \/ \E w \in Workers : WorkerClosedSchedule(w)
  \/ \E w \in Workers : WorkSendFails(w)
  \/ ExecutorClosed
  \/ ServerGone
  \/ CloseStart
  \/ ClientNotify
  \/ ClientError
  \/ ClientDone
  \/ ClientProvideFile
  \/ ClientClosed

CloseSpec == Init /\ [][CloseNext]_vars

\* The execution e is held by the slot of a worker of the pool.
InSlot(e) == \E w \in DOMAIN waiting_workers : waiting_workers[w] = e

\* The execution e waits in ready_execs.
IsReady(e) == \E i \in 1..Len(ready_execs) : ready_execs[i] = e

\* C12: an execution that was dispatched is not lost when its worker
\* disconnects: once the worker_thread has handled the closed channel, the
\* execution is still held by a slot, is back in ready_execs, or has had its
\* NotifyDone (or NotifySkip).
C12_NotLost ==
  (Accepted /\ ~server_gone) =>
    \A e \in DagExecs(cdag) :
      (SentFor("NotifyStart", e) # {} /\ \A w \in Workers : wpc[w] # "closed")
        => (InSlot(e) \/ IsReady(e) \/ Terminal(e) # {})

\* C20: a receive that fails with "receiving on a closed channel" is a clean
\* shutdown on every side: Executor::evaluate has left its loop and returned
\* Ok, the worker_thread has removed its worker from the pool and ends, and
\* ExecutorClient::evaluate has left its loop and returned Ok.
C20_CleanShutdown ==
  /\ ExecutorThread \in closed_seen => epc = "stopped"
  /\ \A w \in Workers :
       w \in closed_seen =>
         /\ w \notin DOMAIN waiting_workers
         /\ server_gone \/ wpc[w] \in {"closed", "gone"}
  /\ ClientThread \in closed_seen => cpc = "returned"

C20_Witness ==
  /\ ExecutorThread \in closed_seen
  /\ \E w \in Workers : w \in closed_seen /\ wpc[w] = "gone"
  /\ Sent("Done") # {}

\* ------------------------------------- the status poller and file transfers

serverVars == <<check_result, schedVars, client_sender, toClient, epc, efiles, workerVars>>

\* The frames of a kind on the channel to the server.
Frames(type) == {i \in 1..Len(toServer) : toServer[i].type = type}

\* A poller that sends Status without taking file_mode.
PollerLock_NoLock ==
  /\ ppc = "test" /\ ~done
  /\ Cardinality(Frames("Status")) < MaxStatus
  /\ ppc' = "locked"
  /\ UNCHANGED <<serverVars, clientVars, toServer, notTransferVars, file_mode, done, tpc,
                 tchunks, asks_left>>

\* The poller: done is not set, file_mode is locked.
PollerLock ==
  /\ ppc = "test" /\ ~done
  /\ Cardinality(Frames("Status")) < MaxStatus
  /\ file_mode = "free"
  /\ file_mode' = "poller"
  /\ ppc' = "locked"
  /\ UNCHANGED <<serverVars, clientVars, toServer, notTransferVars, done, tpc, tchunks,
                 asks_left>>

\* The poller: Status is sent.
PollerStatus ==
  /\ ppc = "locked"
  /\ toServer' = Append(toServer, [type |-> "Status"])
  /\ ppc' = "sent"
  /\ UNCHANGED <<serverVars, clientVars, notTransferVars, file_mode, done, tpc, tchunks,
                 asks_left>>

\* The poller: the lock is dropped and the thread sleeps.
PollerUnlock ==
  /\ ppc = "sent"
  /\ file_mode' = "free"
  /\ ppc' = "sleep"
  /\ UNCHANGED <<serverVars, clientVars, toServer, notTransferVars, done, tpc, tchunks,
                 asks_left>>

\* The poller wakes up.
PollerWake ==
  /\ ppc = "sleep"
  /\ ppc' = "test"
  /\ UNCHANGED <<serverVars, clientVars, toServer, notTransferVars, file_mode, done, tpc,
                 tchunks, asks_left>>

\* The poller finds done set and ends.
PollerExit ==
  /\ ppc = "test" /\ done
  /\ ppc' = "ended"
  /\ UNCHANGED <<serverVars, clientVars, toServer, notTransferVars, file_mode, done, tpc,
                 tchunks, asks_left>>

\* AskFile(uuid): file_mode is locked for the whole arm.
TransferLock ==
  /\ tpc = "recv" /\ asks_left > 0
  /\ file_mode = "free"
  /\ file_mode' = "main"
  /\ asks_left' = asks_left - 1
  /\ tpc' = "header"
  /\ UNCHANGED <<serverVars, clientVars, toServer, notTransferVars, done, ppc, tchunks>>

\* AskFile(uuid): ProvideFile(uuid, key) is sent; the file has up to MaxChunks
\* chunks.
TransferHeader ==
  /\ tpc = "header"
  /\ toServer' = Append(toServer, [type |-> "ProvideFile"])
  /\ \E n \in 0..MaxChunks : tchunks' = n
  /\ tpc' = "data"
  /\ UNCHANGED <<serverVars, clientVars, notTransferVars, file_mode, done, ppc, asks_left>>

\* ChannelFileSender: a chunk of the file is sent.
TransferChunk ==
  /\ tpc = "data" /\ tchunks > 0
  /\ toServer' = Append(toServer, [type |-> "Chunk"])
  /\ tchunks' = tchunks - 1
  /\ UNCHANGED <<serverVars, clientVars, notTransferVars, file_mode, done, ppc, tpc,
                 asks_left>>

\* ChannelFileSender: the end-of-stream sentinel is sent, the arm ends and the
\* lock is dropped.
TransferEnd ==
  /\ tpc = "data" /\ tchunks = 0
  /\ toServer' = Append(toServer, [type |-> "End"])
  /\ file_mode' = "free"
  /\ tpc' = "recv"
  /\ UNCHANGED <<serverVars, clientVars, notTransferVars, done, ppc, tchunks, asks_left>>

\* ChannelFileSender::send fails reading the local file: evaluate returns the
\* error, which drops the lock; done is not set.
TransferFails ==
  /\ tpc = "data"
  /\ file_mode' = "free"
  /\ tpc' = "failed"
  /\ UNCHANGED <<serverVars, clientVars, toServer, notTransferVars, done, ppc, tchunks,
                 asks_left>>

\* The loop of evaluate ends: done is set.
TransferDone ==
  /\ tpc = "recv"
  /\ done' = TRUE
  /\ tpc' = "join"
  /\ UNCHANGED <<serverVars, clientVars, toServer, notTransferVars, file_mode, ppc, tchunks,
                 asks_left>>

\* The poller is joined and evaluate returns.
TransferJoin ==
  /\ tpc = "join" /\ ppc = "ended"
  /\ tpc' = "returned"
  /\ UNCHANGED <<serverVars, clientVars, toServer, notTransferVars, file_mode, done, ppc,
                 tchunks, asks_left>>

TransferNext ==
  \/ PollerLock
  \/ PollerStatus
  \/ PollerUnlock
  \/ PollerWake
  \/ PollerExit
  \/ TransferLock
  \/ TransferHeader
  \/ TransferChunk
  \/ TransferEnd
  \/ TransferFails
  \/ TransferDone
  \/ TransferJoin

TransferSpec == Init /\ [][TransferNext]_vars

\* The frames of a kind before position i.
Before(type, i) == {j \in Frames(type) : j < i}

\* C17: on the channel to the server no Status frame lies between the
\* ProvideFile header of a transfer and the end-of-stream sentinel of that
\* transfer, and the poller and the file-sending arm never hold file_mode
\* together.
C17_NoInterleaving ==
  /\ \A h \in Frames("ProvideFile") : \A e \in Frames("End") :
       (h < e /\ \A x \in Frames("ProvideFile") \cup Frames("End") : ~(h < x /\ x < e))
         => \A i \in Frames("Status") : ~(h < i /\ i < e)
  /\ ~(ppc \in {"locked", "sent"} /\ tpc \in {"header", "data"})

C17_Witness ==
  /\ Cardinality(Frames("End")) = MaxAsks
  /\ Frames("Chunk") # {}
  /\ \E i \in Frames("Status") : Before("ProvideFile", i) # {} /\ Before("End", i + 1) # Frames("End")

\* ------------------------------------------------ the client's callbacks

\* The state process_provided_file and the Done arm work on.
CbState == [fired |-> fired, written |-> written, get_content |-> get_content,
            cerror |-> NoError, asks |-> << >>, missing |-> 0]

Fire(f, r) == [f EXCEPT ![r] = @ + 1]

\* process_provided_file(file_callbacks, uuid, success, iterator): with a
\* write_to the destination is created unless the file failed and failures are
\* not allowed; a get_content is taken and called, and may return an error.
\* wt and af are the write_to registrations and their allow_failure.
ProcessProvided(st, wt, af, f, success, fails) ==
  LET creates == f \in wt /\ (success \/ af)
      calls == f \in st.get_content
      st1 == IF creates
             THEN [st EXCEPT !.fired = Fire(@, <<"write_to", f, 1>>),
                             !.written = @ \cup {f}]
             ELSE st
  IN IF calls
     THEN [st1 EXCEPT !.fired = Fire(@, <<"get_content", f, 1>>),
                      !.get_content = @ \ {f},
                      !.cerror = IF fails THEN <<"get_content", f, 1>> ELSE NoError]
     ELSE st1

\* The files of a list, one after the other, until a callback fails.
RECURSIVE ProcessAll(_, _, _, _, _, _, _)
ProcessAll(st, wt, af, list, inStore, success, failing) ==
  IF list = << >> \/ st.cerror # NoError THEN st
  ELSE LET f == Head(list)
       IN ProcessAll(IF f \in inStore
                     THEN ProcessProvided(st, wt, af, f, success, f \in failing)
                     ELSE [st EXCEPT !.asks = Append(@, [type |-> "AskFile", file |-> f,
                                                         success |-> success]),
                                     !.missing = @ + 1],
                     wt, af, Tail(list), inStore, success, failing)

\* The outcome of a handler: the error is returned, or the loop goes on.
CbOutcome(st) ==
  /\ fired' = st.fired
  /\ written' = st.written
  /\ get_content' = st.get_content
  /\ cerror' = st.cerror

\* The DAG is built with its callbacks (n on each list of an execution) and
\* evaluate starts: the provided files are processed with success true, then
\* Evaluate is sent.
CbStart ==
  /\ cpc = "start"
  /\ \E n \in 0..MaxRegs, wt \in SUBSET CbFiles,
        gc \in SUBSET CbFiles, af \in BOOLEAN, prov \in SUBSET {ProvidedFile},
        failing \in SUBSET {ProvidedFile} :
       LET st == ProcessAll([CbState EXCEPT !.get_content = gc], wt, af, Ascending(prov),
                            prov, TRUE, failing)
       IN /\ failing \subseteq (prov \cap gc)
          /\ execution_callbacks' =
               [e \in 1..CbExecs |->
                  [k \in ExecKinds |-> [i \in 1..n |-> i]]]
          /\ write_to' = wt
          /\ allow_failure' = af
          /\ CbOutcome(st)
          /\ cpc' = IF st.cerror # NoError THEN "failed" ELSE "loop"
          /\ toServer' = IF st.cerror # NoError THEN toServer
                         ELSE Append(toServer, [type |-> "Evaluate"])
  /\ UNCHANGED <<serverVars, notCallbackVars, cread, missing_files, local_store, cdag>>

CbReceives == cpc = "loop" /\ cread < MaxMessages

\* The callbacks of a drained list that are called when the first `ok` of them
\* succeed: those, and the one that fails after them.
Called(list, ok) == {list[i] : i \in 1..(IF ok < Len(list) THEN ok + 1 ELSE ok)}

\* A client that logs the error of a callback and goes on reading.
CbNotify_IgnoresError(kind, e) ==
  /\ CbReceives
  /\ LET list == execution_callbacks[e][kind]
     IN \E ok \in 0..Len(list) :
          /\ fired' = [r \in Regs |->
                         IF r[1] = kind /\ r[2] = e /\ r[3] \in Called(list, ok)
                         THEN fired[r] + 1 ELSE fired[r]]
          /\ cerror' = IF ok < Len(list) THEN <<kind, e, list[ok + 1]>> ELSE NoError
  /\ execution_callbacks' = [execution_callbacks EXCEPT ![e][kind] = << >>]
  /\ cread' = cread + 1
  /\ UNCHANGED <<serverVars, notCallbackVars, toServer, cpc, missing_files, written,
                 allow_failure, local_store, cdag, write_to, get_content>>

\* NotifyStart, NotifyDone, NotifySkip of execution e: the list is drained and
\* its callbacks called in turn; the first error is returned.
CbNotify(kind, e) ==
  /\ CbReceives
  /\ LET list == execution_callbacks[e][kind]
     IN \E ok \in 0..Len(list) :
          /\ fired' = [r \in Regs |->
                         IF r[1] = kind /\ r[2] = e /\ r[3] \in Called(list, ok)
                         THEN fired[r] + 1 ELSE fired[r]]
          /\ cerror' = IF ok < Len(list) THEN <<kind, e, list[ok + 1]>> ELSE NoError
          /\ cpc' = IF ok < Len(list) THEN "failed" ELSE "loop"
  /\ execution_callbacks' = [execution_callbacks EXCEPT ![e][kind] = << >>]
  /\ cread' = cread + 1
  /\ UNCHANGED <<serverVars, notCallbackVars, toServer, missing_files, written,
                 allow_failure, local_store, cdag, write_to, get_content>>

\* ProvideFile(uuid, success): one missing file less, and the file is processed.
CbProvideFile ==
  /\ CbReceives
  /\ \E f \in CbFiles, success \in BOOLEAN, fails \in BOOLEAN :
       LET st == ProcessProvided(CbState, write_to, allow_failure, f, success, fails)
           missing == IF missing_files >= 0 THEN missing_files - 1 ELSE missing_files
       IN /\ fails => f \in get_content
          /\ CbOutcome(st)
          /\ missing_files' = missing
          /\ cpc' = IF st.cerror # NoError THEN "failed"
                    ELSE IF missing >= 0 /\ missing <= 0 THEN "returned" ELSE "loop"
  /\ cread' = cread + 1
  /\ UNCHANGED <<serverVars, notCallbackVars, toServer, allow_failure, local_store, cdag,
                 execution_callbacks, write_to>>

\* Status(status): the status callback is called.
CbStatus ==
  /\ CbReceives
  /\ fired' = Fire(fired, StatusCallback)
  /\ \E fails \in BOOLEAN :
       /\ cerror' = IF fails THEN StatusCallback ELSE NoError
       /\ cpc' = IF fails THEN "failed" ELSE "loop"
  /\ cread' = cread + 1
  /\ UNCHANGED <<serverVars, notCallbackVars, toServer, missing_files, written,
                 allow_failure, local_store, cdag, execution_callbacks, write_to, get_content>>

\* Done(result): the files the local store holds are processed, the others
\* asked for.
CbDone ==
  /\ CbReceives
  /\ \E files \in SUBSET CbFiles, inStore \in SUBSET CbFiles, success \in BOOLEAN,
        failing \in SUBSET CbFiles :
       LET st == ProcessAll(CbState, write_to, allow_failure, Ascending(files), inStore,
                            success, failing)
       IN /\ inStore \subseteq files
          /\ failing \subseteq (inStore \cap get_content)
          /\ CbOutcome(st)
          /\ toServer' = toServer \o st.asks
          /\ missing_files' = IF st.cerror # NoError THEN missing_files ELSE st.missing
          /\ cpc' = IF st.cerror # NoError THEN "failed"
                    ELSE IF st.missing > 0 THEN "loop" ELSE "returned"
  /\ cread' = cread + 1
  /\ UNCHANGED <<serverVars, notCallbackVars, allow_failure, local_store, cdag,
                 execution_callbacks, write_to>>

\* Error(error): the loop is left.
CbError ==
  /\ CbReceives
  /\ cpc' = "returned"
  /\ cread' = cread + 1
  /\ UNCHANGED <<serverVars, notCallbackVars, callbackVars, toServer, missing_files, written,
                 allow_failure, local_store, cdag>>

CallbackNext ==
  \/ CbStart
  \/ \E kind \in ExecKinds, e \in 1..CbExecs : CbNotify(kind, e)
  \/ CbProvideFile
  \/ CbStatus
  \/ CbDone
  \/ CbError

CallbackSpec == Init /\ [][CallbackNext]_vars

\* C18: every on_start, on_done, on_skip, get_content and write_to
\* registration fires at most once, whatever the server sends.
C18_AtMostOnce == \A r \in Regs \ {StatusCallback} : fired[r] <= 1

\* C19: when a user callback returns an error, evaluate returns at once with
\* that error (the callback just called), and nothing done before is undone:
\* no registration loses a call and no written file disappears.
C19_ErrorReturned ==
  [][/\ \A r \in Regs : fired'[r] >= fired[r]
     /\ written \subseteq written'
     /\ (cerror' # NoError) <=> (cpc' = "failed")
     /\ (cerror' # NoError /\ cerror = NoError) => fired'[cerror'] = fired[cerror'] + 1
     /\ cerror # NoError => cerror' = cerror]_vars

C19_Witness ==
  /\ cpc = "failed" /\ cerror \in ExecKinds \X (1..CbExecs) \X (1..MaxRegs)
  /\ cread >= 2
  /\ written # {}
  /\ \E r \in Regs : r # cerror /\ r[1] \in ExecKinds /\ fired[r] >= 1

\* ------------------------------------------------------- the Result Cache

\* The DAGs evaluated twice: at most CacheExecs executions, and valid.
CacheExecs == 2

CacheDags == {d \in UNION {DynDagsOf(n) : n \in 0..CacheExecs} : check_dag(d) = "ok"}

\* The scheduler state with the executions replayed from the cache.
CacheData ==
  [dag |-> dag, waiting_workers |-> waiting_workers, ready_execs |-> ready_execs,
   missing_deps |-> missing_deps, dependents |-> dependents,
   file_keys |-> file_keys, out |-> toClient, replayed |-> replayed]

SetCacheData(s) == SetData(s) /\ replayed' = s.replayed

\* The files fs become ready: the key is recorded and the dependents counted
\* down (file_ready before its call of schedule).
RECURSIVE FilesKnown(_, _)
FilesKnown(s, fs) ==
  IF fs = << >> THEN s
  ELSE FilesKnown(DepsReady([s EXCEPT !.file_keys = Insert(@, Head(fs), TRUE)],
                            DependentsOf(s, Head(fs))),
                  Tail(fs))

\* The worker schedule() pops: the first free one of order.
Popped(s, order) ==
  order[CHOOSE i \in 1..Len(order) :
          /\ order[i] \in FreeWorkers(s.waiting_workers)
          /\ \A j \in 1..(i - 1) : order[j] \notin FreeWorkers(s.waiting_workers)]

\* The completion of an execution with a status: its outputs are ready, or
\* they fail and the dependents are skipped.
Completed(s, e, result) ==
  IF result THEN FilesKnown(s, Ascending(Outputs(s.dag, e))) ELSE exec_failed(s, e)

\* A cache hit that completes the execution without telling the client.
Replay_Silent(s, c, e, order) ==
  Completed([s EXCEPT !.ready_execs = Tail(@), !.replayed = @ \cup {e}], e, c[e])

\* Cache hit: the completion is synthesized from the stored status (NotifyStart
\* and NotifyDone are still sent), the worker goes back to the pool.
Replay(s, c, e, order) ==
  Completed(Send(Send([s EXCEPT !.ready_execs = Tail(@), !.replayed = @ \cup {e}],
                      [type |-> "NotifyStart", exec |-> e, worker |-> Popped(s, order)]),
                 [type |-> "NotifyDone", exec |-> e, result |-> c[e]]),
            e, c[e])

\* schedule() with the cache lookup: a hit is replayed, a miss goes to the
\* worker's slot.
RECURSIVE schedule_cache(_, _, _)
schedule_cache(s, c, order) ==
  IF s.ready_execs # << >> /\ FreeWorkers(s.waiting_workers) # {}
  THEN IF Head(s.ready_execs) \in DOMAIN c
       THEN schedule_cache(Replay(s, c, Head(s.ready_execs), order), c, order)
       ELSE schedule_cache(Assign(s, order), c, order)
  ELSE check_completion(s)

\* A cache that stores nothing.
CacheInsert_Never(c, e, result) == c

\* Insert on success: the status the worker reported is stored, a process
\* failure included (it is a success at the protocol level).
CacheInsert(c, e, result) == Insert(c, e, result)

\* Evaluate: setup, the provided files are ready, schedule.
Evaluated(d, order) ==
  LET s == setup([CacheData EXCEPT !.dag = d, !.out = << >>, !.file_keys = << >>,
                                   !.replayed = {}])
  IN schedule_cache(FilesKnown(s, Ascending(d.provided)), cache, order)

\* The first evaluation of a DAG, whose commands are deterministic.
CacheEvaluate ==
  /\ run = 0
  /\ \E d \in CacheDags, o \in [Execs -> BOOLEAN], order \in Orders :
       /\ \A e \in Execs \ DagExecs(d) : o[e]
       /\ cdag' = d
       /\ outcome' = o
       /\ SetCacheData(Evaluated(d, order))
  /\ run' = 1
  /\ UNCHANGED <<notCacheVars, cache, sandbox_runs, first, check_result, client_sender,
                 toServer, epc, efiles, workerVars, cpc, cread, missing_files, written,
                 allow_failure, local_store>>

\* The same DAG is evaluated again once the first evaluation is Done.
CacheEvaluateAgain ==
  /\ run = 1 /\ dag = NoDag /\ Sent("Done") # {}
  /\ first' = [log |-> toClient, keys |-> file_keys]
  /\ \E order \in Orders : SetCacheData(Evaluated(cdag, order))
  /\ sandbox_runs' = 0
  /\ run' = 2
  /\ UNCHANGED <<notCacheVars, cache, outcome, check_result, client_sender, toServer, epc,
                 efiles, workerVars, clientVars>>

\* GetWork of a worker: it is registered with an empty slot, schedule.
CacheGetWork(w) ==
  /\ wpc[w] = "idle"
  /\ w \notin DOMAIN waiting_workers
  /\ \E order \in Orders :
       SetCacheData(schedule_cache([CacheData EXCEPT
                                      !.waiting_workers = Insert(@, w, NoExec)],
                                   cache, order))
  /\ wpc' = [wpc EXCEPT ![w] = "waiting"]
  /\ UNCHANGED <<notCacheVars, cache, outcome, sandbox_runs, run, first, check_result,
                 client_sender, toServer, epc, efiles, wres, wjob, clientVars>>

\* WorkerDone of a worker: the sandbox has run the execution; the client is
\* notified, the result is inserted in the cache, the scheduler goes on.
CacheWorkerDone(w) ==
  /\ wpc[w] = "running"
  /\ w \in DOMAIN waiting_workers /\ waiting_workers[w] # NoExec
  /\ LET e == waiting_workers[w]
         c == CacheInsert(cache, e, outcome[e])
         s == Send([CacheData EXCEPT !.waiting_workers = Remove(@, w)],
                   [type |-> "NotifyDone", exec |-> e, result |-> outcome[e]])
     IN /\ cache' = c
        /\ \E order \in Orders :
             SetCacheData(schedule_cache(Completed(s, e, outcome[e]), c, order))
  /\ sandbox_runs' = sandbox_runs + 1
  /\ wpc' = [wpc EXCEPT ![w] = "idle"]
  /\ UNCHANGED <<notCacheVars, outcome, run, first, check_result, client_sender, toServer,
                 epc, efiles, wres, wjob, clientVars>>

CacheNext ==
  \/ CacheEvaluate
  \/ CacheEvaluateAgain
  \/ \E w \in Workers : CacheGetWork(w)
  \/ \E w \in Workers : wait_for_work(w)
  \/ \E w \in Workers : CacheWorkerDone(w)

CacheSpec == Init /\ [][CacheNext]_vars

\* What a log reports about an execution.
StatusIn(log, e) ==
  IF \E i \in 1..Len(log) : log[i].type = "NotifyDone" /\ log[i].exec = e /\ log[i].result
    THEN "success"
  ELSE IF \E i \in 1..Len(log) : log[i].type = "NotifyDone" /\ log[i].exec = e
    THEN "failed"
  ELSE IF \E i \in 1..Len(log) : log[i].type = "NotifySkip" /\ log[i].exec = e
    THEN "skipped"
  ELSE "none"

\* The second evaluation is Done.
SecondDone == run = 2 /\ Sent("Done") # {}

SameReports ==
  /\ \A e \in DagExecs(cdag) : StatusIn(toClient, e) = StatusIn(first.log, e)
  /\ file_keys = first.keys

MaxBad == 1

\* A peer sends the executor a frame bincode cannot deserialize.
BadFrameToServer ==
  /\ bad_sent < MaxBad /\ cpc \in {"start", "loop"}
  /\ toServer' = Append(toServer, [type |-> "Garbage"])
  /\ bad_sent' = bad_sent + 1
  /\ UNCHANGED <<serverVars, clientVars, notFrameVars, bad_seen>>

\* The client is sent a frame bincode cannot deserialize.
BadFrameToClient ==
  /\ bad_sent < MaxBad /\ cpc = "loop" /\ epc # "stopped"
  /\ toClient' = Append(toClient, [type |-> "Garbage"])
  /\ bad_sent' = bad_sent + 1
  /\ UNCHANGED <<check_result, schedVars, client_sender, epc, efiles, workerVars, toServer,
                 clientVars, notFrameVars, bad_seen>>

\* Executor::evaluate, deserialize_from returns an error that is not
\* "receiving on a closed channel": it is logged and the loop goes on.
ExecutorBadFrame ==
  /\ epc = "recv" /\ toServer # << >> /\ Head(toServer).type = "Garbage"
  /\ toServer' = Tail(toServer)
  /\ bad_seen' = bad_seen \cup {ExecutorThread}
  /\ UNCHANGED <<serverVars, clientVars, notFrameVars, bad_sent>>

\* ExecutorClient::evaluate, deserialize_from returns an error that is not
\* "receiving on a closed channel": it is logged and the loop goes on.
ClientBadFrame ==
  /\ CanRead /\ NextMessage.type = "Garbage"
  /\ cread' = cread + 1
  /\ bad_seen' = bad_seen \cup {ClientThread}
  /\ UNCHANGED <<serverVars, toServer, notFrameVars, bad_sent, cpc, missing_files, written,
                 allow_failure, local_store, cdag>>

FrameNext ==
  \/ EvaluateRejected
  \/ EvaluateStore
  \/ EvaluateSetup
  \/ EvaluateFileReady
  \/ EvaluateSchedule
  \/ ServeAskFile
  \/ \E w \in Workers : GetWork(w)
  \/ \E w \in Workers : GetWorkSchedule(w)
  \/ \E w \in Workers : wait_for_work(w)
  \/ \E w \in Workers : WorkerDone(w)
  \/ \E w \in Workers : WorkerDoneExec(w)
  \/ BadFrameToServer
  \/ BadFrameToClient
  \/ ExecutorBadFrame
  \/ ClientBadFrame
  \/ CloseStart
  \/ ClientNotify
  \/ ClientError
  \/ ClientDone
  \/ ClientProvideFile

FrameSpec == Init /\ [][FrameNext]_vars

\* C21: a frame that does not deserialize is fatal to the evaluation: the
\* executor that received one has left its loop, and the client that received
\* one has returned, instead of going on with the next message.
C21_Fatal ==
  /\ ExecutorThread \in bad_seen => epc = "stopped"
  /\ ClientThread \in bad_seen => cpc \in {"failed", "returned"}

\* --------------------------------------------- files the client provides

\* The client sends ProvideFile for a file it provides, followed by its bytes;
\* ok says whether the bytes hash to the announced key.
ClientProvides ==
  /\ cpc = "loop" /\ ~provide_sent
  /\ \E f \in cdag.provided, ok \in BOOLEAN :
       toServer' = Append(toServer, [type |-> "ProvideFile", file |-> f, ok |-> ok])
  /\ provide_sent' = TRUE
  /\ UNCHANGED <<serverVars, clientVars, notProvideVars, provided_seen>>

\* Executor::evaluate, ProvideFile(uuid): Scheduler::schedule, and the loop is
\* left. No byte is read and no key compared.
ExecutorProvideFile ==
  /\ epc = "recv" /\ toServer # << >> /\ Head(toServer).type = "ProvideFile"
  /\ provided_seen' = provided_seen \cup {[file |-> Head(toServer).file,
                                           ok |-> Head(toServer).ok]}
  /\ \E order \in Orders : SetData(schedule(Data, order))
  /\ toServer' = Tail(toServer)
  /\ epc' = "stopped"
  /\ UNCHANGED <<check_result, client_sender, efiles, workerVars, clientVars,
                 notProvideVars, provide_sent>>

ProvideNext ==
  \/ EvaluateRejected
  \/ EvaluateStore
  \/ EvaluateSetup
  \/ EvaluateFileReady
  \/ EvaluateSchedule
  \/ ServeAskFile
  \/ ExecutorProvideFile
  \/ \E w \in Workers : GetWork(w)
  \/ \E w \in Workers : GetWorkSchedule(w)
  \/ \E w \in Workers : wait_for_work(w)
  \/ \E w \in Workers : WorkerDone(w)
  \/ \E w \in Workers : WorkerDoneExec(w)
  \/ CloseStart
  \/ ClientProvides
  \/ ClientNotify
  \/ ClientError
  \/ ClientDone
  \/ ClientProvideFile

ProvideSpec == Init /\ [][ProvideNext]_vars

\* The files the client's DAG declares as provided.
Provided == IF cdag = NoDag THEN {} ELSE cdag.provided

\* The executor has received the bytes of f, with the announced key or any.
Delivered(f) == \E p \in provided_seen : p.file = f /\ p.ok

Received(f) == \E p \in provided_seen : p.file = f

\* The executions that read f and were dispatched.
Dispatched(f) ==
  {e \in DagExecs(cdag) : f \in Dependencies(cdag, e) /\ SentFor("NotifyStart", e) # {}}

\* C22: when the bytes received after ProvideFile do not hash to the announced
\* key the executor sends Error, the file never becomes ready and no execution
\* that reads it is dispatched; file_keys of a provided file is defined only
\* when its bytes were delivered with the announced key.
C22_Integrity ==
  /\ \A p \in provided_seen :
       (~p.ok /\ ~Delivered(p.file)) =>
         /\ Sent("Error") # {}
         /\ p.file \notin DOMAIN file_keys
         /\ Dispatched(p.file) = {}
  /\ \A f \in Provided \cap DOMAIN file_keys : Delivered(f)

\* C23: a provided file, whose bytes the executor does not hold, is ready only
\* once the client's ProvideFile for it has been received: no execution that
\* reads it is dispatched before, and after it the executor goes on serving
\* the client channel.
C23_ReadyWhenProvided ==
  Accepted =>
    \A f \in Provided :
      /\ Dispatched(f) # {} => Received(f)
      /\ Received(f) => epc # "stopped"

\* ------------------------------------------------------ the Status reply

\* The Status messages the client sends in a run.
MaxPolls == 1

\* The status poller of the client: Status is sent.
StatusPoll ==
  /\ cpc = "loop" /\ status_sent < MaxPolls
  /\ toServer' = Append(toServer, [type |-> "Status"])
  /\ status_sent' = status_sent + 1
  /\ UNCHANGED <<serverVars, clientVars, notStatusVars, status_states>>

\* The executions of the stored DAG without a terminal notification.
Outstanding ==
  IF dag = NoDag THEN {} ELSE {e \in DagExecs(dag) : Terminal(e) = {}}

\* Executor::evaluate, Status: the reply is the text "Good, thanks". The
\* payload is the sequence of the fields of the message.
ExecutorStatus ==
  /\ epc = "recv" /\ toServer # << >> /\ Head(toServer).type = "Status"
  /\ toServer' = Tail(toServer)
  /\ toClient' = Append(toClient, [type |-> "Status", status |-> <<"Good, thanks">>])
  /\ status_states' = Append(status_states,
                             [ready_execs |-> Len(ready_execs),
                              waiting_execs |-> Cardinality(DOMAIN missing_deps),
                              current_job |-> waiting_workers,
                              outstanding |-> Cardinality(Outstanding)])
  /\ UNCHANGED <<check_result, schedVars, client_sender, epc, efiles, workerVars,
                 clientVars, notStatusVars, status_sent>>

\* Status(status): the status callback is called with the fields of status.
ClientStatus ==
  /\ CanRead
  /\ NextMessage.type = "Status"
  /\ cread' = cread + 1
  /\ UNCHANGED <<serverVars, toServer, auxVars, cpc, missing_files, written,
                 allow_failure, local_store, cdag>>

StatusNext ==
  \/ EvaluateRejected
  \/ EvaluateStore
  \/ EvaluateSetup
  \/ EvaluateFileReady
  \/ EvaluateSchedule
  \/ ServeAskFile
  \/ ExecutorStatus
  \/ \E w \in Workers : GetWork(w)
  \/ \E w \in Workers : GetWorkSchedule(w)
  \/ \E w \in Workers : wait_for_work(w)
  \/ \E w \in Workers : WorkerDone(w)
  \/ \E w \in Workers : WorkerDoneExec(w)
  \/ CloseStart
  \/ StatusPoll
  \/ ClientStatus
  \/ ClientNotify
  \/ ClientError
  \/ ClientDone
  \/ ClientProvideFile

StatusSpec == Init /\ [][StatusNext]_vars

\* The Status replies in the order they were sent.
StatusReplies == Ascending(Sent("Status"))

\* C24: every Status reply is a snapshot of one state of the scheduler:
\* ready_execs is the size of the ready queue, waiting_execs the number of
\* executions with missing dependencies, current_job of a worker the execution
\* in its slot; the three counts sum to at least the number of executions
\* without a terminal notification.
C24_Snapshot ==
  \A k \in 1..Len(StatusReplies) :
    LET m == toClient[StatusReplies[k]].status
        s == status_states[k]
    IN /\ Len(m) = 3
       /\ m[1] = s.ready_execs
       /\ m[2] = s.waiting_execs
       /\ m[3] = s.current_job
       /\ m[1] + m[2] + Cardinality(BusyWorkers(m[3])) >= s.outstanding

\* --------------------------------------------------- errors of the sandbox

\* The commands of an execution: a system command that which() finds or does
\* not find in PATH, or a local file.
Commands == {"system", "system_missing", "local"}

NoMessage == "none"

\* What tmbox prints: error with a message or without one, or the statistics
\* of the process with its status code.
TMBoxResults ==
  {[error |-> TRUE, message |-> m, status_code |-> 0] : m \in {"tmbox failed", NoMessage}}
    \cup {[error |-> FALSE, message |-> NoMessage, status_code |-> c] : c \in {0, 1}}

\* build_command, the command after "--": a system command is looked up.
build_command_Command(cmd) ==
  IF cmd = "system_missing" THEN [ok |-> FALSE, error |-> "Executable not found"]
  ELSE [ok |-> TRUE, error |-> NoMessage]

\* A run that reports the process of an erring sandbox as exited with 0.
Sandbox_run_HidesError(cmd, tmbox) ==
  [kind |-> "Success", error |-> NoMessage, exit_status |-> tmbox.status_code]

\* Sandbox::run: Failed when the command cannot be built or tmbox says error.
Sandbox_run(cmd, tmbox) ==
  IF ~build_command_Command(cmd).ok
  THEN [kind |-> "Failed", error |-> build_command_Command(cmd).error, exit_status |-> 0]
  ELSE IF tmbox.error
    THEN [kind |-> "Failed",
          error |-> IF tmbox.message = NoMessage THEN "No output from sandbox"
                    ELSE tmbox.message,
          exit_status |-> 0]
  ELSE [kind |-> "Success", error |-> NoMessage, exit_status |-> tmbox.status_code]

\* The worker: the status of the result it reports for a sandbox result.
StatusOf(res) ==
  IF res.kind = "Failed" THEN "InternalError"
  ELSE IF res.exit_status = 0 THEN "Success" ELSE "ReturnCode"

\* The sandbox erred: the system command is not in PATH or tmbox says error.
SandboxError(cmd, tmbox) == cmd = "system_missing" \/ tmbox.error

\* The worker runs its execution in the sandbox and sends WorkerDone; the
\* handler, under the lock, takes the worker from waiting_workers and sends
\* NotifyDone with the result.
SandboxWorkerDone(w) ==
  /\ wpc[w] = "running"
  /\ w \in DOMAIN waiting_workers /\ waiting_workers[w] # NoExec
  /\ client_sender
  /\ \E cmd \in Commands, tmbox \in TMBoxResults :
       LET res == Sandbox_run(cmd, tmbox)
           status == StatusOf(res)
       IN /\ wres' = [wres EXCEPT ![w] = (status = "Success")]
          /\ toClient' = Append(toClient, [type |-> "NotifyDone",
                                           exec |-> waiting_workers[w],
                                           result |-> (status = "Success"),
                                           status |-> status])
          /\ box_log' = box_log \cup {[exec |-> waiting_workers[w], worker |-> w,
                                        erred |-> SandboxError(cmd, tmbox),
                                        result |-> res]}
  /\ wjob' = [wjob EXCEPT ![w] = waiting_workers[w]]
  /\ waiting_workers' = Remove(waiting_workers, w)
  /\ wpc' = [wpc EXCEPT ![w] = "done"]
  /\ UNCHANGED <<notSandboxVars, check_result, dag, client_sender, ready_execs,
                 missing_deps, dependents, file_keys, toServer, epc, efiles, clientVars>>

SandboxNext ==
  \/ EvaluateRejected
  \/ EvaluateStore
  \/ EvaluateSetup
  \/ EvaluateFileReady
  \/ EvaluateSchedule
  \/ ServeAskFile
  \/ \E w \in Workers : GetWork(w)
  \/ \E w \in Workers : GetWorkSchedule(w)
  \/ \E w \in Workers : wait_for_work(w)
  \/ \E w \in Workers : SandboxWorkerDone(w)
  \/ \E w \in Workers : WorkerDoneExec(w)
  \/ CloseStart
  \/ ClientNotify
  \/ ClientError
  \/ ClientDone
  \/ ClientProvideFile

SandboxSpec == Init /\ [][SandboxNext]_vars

\* The executions that read, directly or not, an output of a.
Downstream(a) == {e \in DagExecs(cdag) : a \in Ancestors(cdag, e)}

\* C25: when the sandbox of execution E errs (tmbox says error, or the system
\* command is not in PATH) the run returns Failed with a message, the client
\* receives one NotifyDone(E), with status InternalError, every execution
\* downstream of E is skipped and never started, and the worker asks for work
\* again.
C25_SandboxError ==
  \A l \in box_log :
    l.erred =>
      /\ l.result.kind = "Failed" /\ l.result.error # NoMessage
      /\ Cardinality(SentFor("NotifyDone", l.exec)) = 1
      /\ \A i \in SentFor("NotifyDone", l.exec) : toClient[i].status = "InternalError"
      /\ \A e \in Downstream(l.exec) :
           /\ SentFor("NotifyStart", e) = {}
           /\ ~Handling(l.exec) => Cardinality(SentFor("NotifySkip", e)) = 1
      /\ wpc[l.worker] \in {"done", "idle", "registered", "waiting", "running"}
      /\ Quiescent => wpc[l.worker] = "waiting"

C25_Witness ==
  \E l \in box_log :
    /\ l.erred /\ l.result.error = "Executable not found"
    /\ Downstream(l.exec) # {}
    /\ \A e \in Downstream(l.exec) : SentFor("NotifySkip", e) # {}
    /\ wpc[l.worker] = "waiting"

\* ------------------------------------------------------------ SourceFile

\* The execute calls on one SourceFile.
MaxCalls == 4

\* What a call returns first: the uuid of a compilation, None, or an error.
None == 0
Err == -1

\* Where dag.provide_file fails in a call: nowhere, on a compilation
\* dependency, on the source file, or on a runtime dependency of execute.
FailPoints == {"nowhere", "compilation_deps", "source", "runtime_deps"}

\* SourceFile::new: the language is detected from the path.
SourceNew ==
  /\ language = "none"
  /\ language' \in {"compiled", "interpreted"}
  /\ UNCHANGED <<serverVars, clientVars, toServer, notSourceVars, executable,
                 compilations, returned>>

\* prepare(dag): nothing when executable is set; else, for a language that needs
\* compilation, the compilation is added to the DAG, the source is provided and
\* executable is set; for the others executable is set and the source provided.
prepare(st, fail) ==
  IF st.executable THEN [st EXCEPT !.ret = None]
  ELSE IF st.language = "compiled"
    THEN IF fail = "compilation_deps" THEN [st EXCEPT !.ret = Err]
         ELSE LET comp_uuid == Cardinality(st.compilations) + 1
                  added == [st EXCEPT !.compilations = @ \cup {comp_uuid}]
              IN IF fail = "source" THEN [added EXCEPT !.ret = Err]
                 ELSE [added EXCEPT !.executable = TRUE, !.ret = comp_uuid]
  ELSE IF fail = "source" THEN [st EXCEPT !.executable = TRUE, !.ret = Err]
       ELSE [st EXCEPT !.executable = TRUE, !.ret = None]

\* execute(dag, description, args): prepare, then the runtime dependencies.
execute(st, fail) ==
  LET p == prepare(st, fail)
  IN IF p.ret = Err THEN p
     ELSE IF fail = "runtime_deps" THEN [p EXCEPT !.ret = Err]
     ELSE p

SourceExecute ==
  /\ language # "none" /\ Len(returned) < MaxCalls
  /\ \E fail \in FailPoints :
       LET r == execute([language |-> language, executable |-> executable,
                         compilations |-> compilations, ret |-> None], fail)
       IN /\ executable' = r.executable
          /\ compilations' = r.compilations
          /\ returned' = Append(returned, r.ret)
  /\ UNCHANGED <<serverVars, clientVars, toServer, notSourceVars, language>>

SourceNext == SourceNew \/ SourceExecute

SourceSpec == Init /\ [][SourceNext]_vars

\* The calls that returned the uuid of a compilation.
ReturnedUuid == {i \in 1..Len(returned) : returned[i] \notin {None, Err}}

\* C26: over the execute calls of one SourceFile at most one compilation is
\* added to the DAG, the call that adds it returns its uuid and no other call
\* returns a uuid; for a language that needs no compilation none is added and
\* no call returns a uuid.
C26_CompiledOnce ==
  /\ Cardinality(compilations) <= 1
  /\ \A c \in compilations : \E i \in ReturnedUuid : returned[i] = c
  /\ Cardinality(ReturnedUuid) <= 1
  /\ language = "interpreted" => compilations = {} /\ ReturnedUuid = {}

\* ----------------------------------------------- the Sandbox and its directory

\* The limits an execution may set, in units of time; Unset is None.
MaxTime == 2
MaxExtra == 1
MaxClones == 2
Unset == -1

Limit == {Unset} \cup 0..MaxTime

\* The write bit of the owner in a mode (0o700 has it, 0o500 has not).
Writable(mode) == (mode \div 2) % 2 = 1

\* Sandbox::new and Sandbox::setup: the directory and box/ are created, the
\* outputs are touched inside box/, and box/ loses its write bit if read_only.
SandboxNew ==
  /\ box_state = "none"
  /\ \E cpu \in Limit, sys \in Limit, wall \in Limit, extra \in 0..MaxExtra,
        ro \in BOOLEAN, out \in BOOLEAN :
       /\ box_execution' = [cpu_time |-> cpu, sys_time |-> sys, wall_time |-> wall,
                            extra_time |-> extra, read_only |-> ro, outputs |-> out]
       /\ boxdir' = [exists |-> TRUE,
                     box_mode |-> IF ro THEN 5 ELSE 7,
                     box_files |-> IF out THEN {"output"} ELSE {},
                     files |-> {}]
  /\ box_state' = "live"
  /\ clones' = 1
  /\ UNCHANGED <<serverVars, clientVars, toServer, notBoxVars, keep_sandbox, command>>

\* A build_command that adds extra_time to the wall limit only.
build_command_Limits_NoExtra(e) ==
  (IF e.cpu_time # Unset \/ e.sys_time # Unset
   THEN <<[flag |-> "--time",
           value |-> (IF e.cpu_time # Unset THEN e.cpu_time ELSE 0)
                       + (IF e.sys_time # Unset THEN e.sys_time ELSE 0)]>>
   ELSE << >>)
  \o (IF e.wall_time # Unset
      THEN <<[flag |-> "--wall", value |-> e.wall_time + e.extra_time]>>
      ELSE << >>)

\* build_command, the limits: --time is cpu_time + sys_time (those set) plus
\* extra_time, --wall is wall_time plus extra_time.
build_command_Limits(e) ==
  LET cpu_limit ==
        IF e.cpu_time # Unset /\ e.sys_time # Unset THEN e.cpu_time + e.sys_time
        ELSE IF e.cpu_time # Unset THEN e.cpu_time
        ELSE IF e.sys_time # Unset THEN e.sys_time
        ELSE Unset
  IN (IF cpu_limit # Unset
      THEN <<[flag |-> "--time", value |-> cpu_limit + e.extra_time]>>
      ELSE << >>)
     \o (IF e.wall_time # Unset
         THEN <<[flag |-> "--wall", value |-> e.wall_time + e.extra_time]>>
         ELSE << >>)

\* Sandbox::run: the command line is built and tmbox runs.
SandboxRun ==
  /\ box_state = "live" /\ command = << >>
  /\ command' = build_command_Limits(box_execution)
  /\ UNCHANGED <<serverVars, clientVars, toServer, notBoxVars, box_state, box_execution,
                 clones, keep_sandbox, boxdir>>

\* Sandbox::keep: keep_sandbox is set, info.json and command.txt are written.
SandboxKeep ==
  /\ box_state = "live" /\ ~keep_sandbox
  /\ keep_sandbox' = TRUE
  /\ boxdir' = [boxdir EXCEPT !.files = @ \cup {"info.json", "command.txt"}]
  /\ command' = build_command_Limits(box_execution)
  /\ UNCHANGED <<serverVars, clientVars, toServer, notBoxVars, box_state, box_execution,
                 clones>>

\* Sandbox::clone: one more handle on the same SandboxData.
SandboxClone ==
  /\ box_state = "live" /\ clones < MaxClones
  /\ clones' = clones + 1
  /\ UNCHANGED <<serverVars, clientVars, toServer, notBoxVars, box_state, box_execution,
                 keep_sandbox, boxdir, command>>

\* The drop of the TempDir: the directory is deleted recursively, which fails
\* when an entry of box/ cannot be unlinked because box/ is not writable.
RemoveDirAll(d) ==
  IF d.box_files # {} /\ ~Writable(d.box_mode) THEN [d EXCEPT !.files = {}]
  ELSE [exists |-> FALSE, box_mode |-> 0, box_files |-> {}, files |-> {}]

\* A drop that does not restore the write bit of box/.
SandboxData_drop_NoChmod(d, keep) ==
  IF keep THEN d ELSE RemoveDirAll(d)

\* Drop for SandboxData: a kept directory is left alone; else box/ is set to
\* 0o700 and the TempDir is dropped.
SandboxData_drop(d, keep) ==
  IF keep THEN d ELSE RemoveDirAll([d EXCEPT !.box_mode = 7])

\* drop(sandbox): the last clone drops the SandboxData.
SandboxDrop ==
  /\ box_state = "live"
  /\ clones' = clones - 1
  /\ IF clones = 1
     THEN /\ box_state' = "dropped"
          /\ boxdir' = SandboxData_drop(boxdir, keep_sandbox)
     ELSE UNCHANGED <<box_state, boxdir>>
  /\ UNCHANGED <<serverVars, clientVars, toServer, notBoxVars, box_execution,
                 keep_sandbox, command>>

BoxNext == SandboxNew \/ SandboxRun \/ SandboxKeep \/ SandboxClone \/ SandboxDrop

BoxSpec == Init /\ [][BoxNext]_vars

\* The values the command line passes with a flag.
Passed(flag) == {command[i].value : i \in {j \in 1..Len(command) : command[j].flag = flag}}

Times(flag) == Cardinality({j \in 1..Len(command) : command[j].flag = flag})

\* C28: the command line passes --time, once, with the sum of those of cpu_time
\* and sys_time that are set plus extra_time, and no --time when neither is
\* set; it passes --wall, once, with wall_time plus extra_time, and no --wall
\* when wall_time is unset.
C28_Limits ==
  LET e == box_execution
      set == {l \in {"cpu", "sys"} : (IF l = "cpu" THEN e.cpu_time ELSE e.sys_time) # Unset}
      sum == (IF "cpu" \in set THEN e.cpu_time ELSE 0)
               + (IF "sys" \in set THEN e.sys_time ELSE 0)
  IN (box_state # "none" /\ (command # << >> \/ keep_sandbox)) =>
       /\ IF set = {} THEN Times("--time") = 0
          ELSE Times("--time") = 1 /\ Passed("--time") = {sum + e.extra_time}
       /\ IF e.wall_time = Unset THEN Times("--wall") = 0
          ELSE Times("--wall") = 1 /\ Passed("--wall") = {e.wall_time + e.extra_time}

C28_Witness ==
  /\ box_execution.cpu_time > 0 /\ box_execution.sys_time > 0
  /\ box_execution.wall_time > 0 /\ box_execution.extra_time > 0
  /\ Passed("--time") = {box_execution.cpu_time + box_execution.sys_time
                          + box_execution.extra_time}
  /\ Passed("--wall") = {box_execution.wall_time + box_execution.extra_time}

\* C29: once the last clone of a Sandbox is dropped, the sandbox directory with
\* box/ and every file is gone when keep() was not called, also for a
\* read_only execution, and is still there when keep() was called.
C29_CleanUp ==
  box_state = "dropped" =>
    IF keep_sandbox
    THEN boxdir.exists /\ {"info.json", "command.txt"} \subseteq boxdir.files
    ELSE ~boxdir.exists /\ boxdir.box_files = {} /\ boxdir.files = {}

C29_Witness ==
  /\ box_state = "dropped" /\ ~keep_sandbox
  /\ box_execution.read_only /\ box_execution.outputs
  /\ command # << >>
  /\ ~boxdir.exists

\* ------------------------------------------ the counts of the scheduler

\* Scheduler::setup has run for the DAG the client submitted.
AfterSetup == Accepted /\ check_result = "ok" /\ epc \notin {"setup"}

\* The execution is in a worker's slot or its WorkerDone is being handled.
Running(e) ==
  \/ \E w \in DOMAIN waiting_workers : waiting_workers[w] = e
  \/ Handling(e)

\* The input file uuids of e that are not yet ready.
NotReady(e) == {f \in Dependencies(cdag, e) : f \notin DOMAIN file_keys}

Ready(e) == \E i \in 1..Len(ready_execs) : ready_execs[i] = e

\* C30: after setup, for every execution that is neither running nor terminal,
\* missing_deps counts its input file uuids that are not yet ready and it is in
\* ready_execs exactly when that number is zero; an execution in a worker's
\* slot has no input that is not ready.
C30_Counts ==
  AfterSetup =>
    \A e \in DagExecs(cdag) :
      /\ (~Running(e) /\ Terminal(e) = {}) =>
           /\ NotReady(e) # {} =>
                e \in DOMAIN missing_deps /\ missing_deps[e] = Cardinality(NotReady(e))
           /\ Ready(e) <=> NotReady(e) = {}
      /\ (\E w \in DOMAIN waiting_workers : waiting_workers[w] = e) => NotReady(e) = {}

\* ------------------------------------------------- the slots of the workers

\* The workers whose slot holds e.
SlotsOf(e) == {w \in DOMAIN waiting_workers : waiting_workers[w] = e}

\* The places of e in ready_execs.
QueuedAt(e) == {i \in 1..Len(ready_execs) : ready_execs[i] = e}

\* C31: an execution is in at most one worker's slot and is assigned at most
\* once (one NotifyStart, so one Work); it is in ready_execs at most once, and
\* never while it is in a slot, while its WorkerDone is handled or after its
\* terminal notification.
C31_NoDoubleDispatch ==
  \A e \in Execs :
    /\ Cardinality(SlotsOf(e)) <= 1
    /\ Cardinality(SentFor("NotifyStart", e)) <= 1
    /\ Cardinality({w \in Workers : wjob[w] = e}) <= 1
    /\ Cardinality(QueuedAt(e)) <= 1
    /\ (SlotsOf(e) # {} \/ Handling(e) \/ Terminal(e) # {}) => QueuedAt(e) = {}
    /\ SlotsOf(e) # {} => SentFor("NotifyStart", e) # {} /\ Terminal(e) = {}

C31_Witness ==
  /\ \E e \in Execs : SlotsOf(e) # {} /\ \E w \in SlotsOf(e) : wpc[w] = "running"
  /\ \E e \in Execs : QueuedAt(e) # {}
  /\ \E w \in Workers : wpc[w] = "registered"

\* C32: a worker that may send GetWork is not registered (the assertion of
\* the GetWork handler holds), a registered worker has one slot, a worker that
\* may send WorkerDone is registered with an execution in its slot, and once
\* the handler of WorkerDone has read the slot the worker is registered no more.
C32_SingleSlot ==
  \A w \in Workers :
    /\ wpc[w] = "idle" => w \notin DOMAIN waiting_workers /\ wjob[w] = NoExec
    /\ wpc[w] \in {"registered", "waiting"} => w \in DOMAIN waiting_workers
    /\ wpc[w] = "running" => w \in DOMAIN waiting_workers /\ waiting_workers[w] # NoExec
    /\ wpc[w] = "done" => w \notin DOMAIN waiting_workers /\ wjob[w] # NoExec
    /\ w \in DOMAIN waiting_workers => waiting_workers[w] \in Execs \cup {NoExec}

C32_Witness ==
  \E w \in Workers :
    /\ wpc[w] = "registered" /\ waiting_workers[w] = NoExec
    /\ SentFor("NotifyDone", 1) # {}
    /\ \E i \in Sent("NotifyStart") : toClient[i].worker = w

\* ------------------------------------------- the order workers are chosen in

\* GetWork: the worker is registered with an empty slot, after the others.
FifoGetWork(w) ==
  /\ wpc[w] = "idle"
  /\ w \notin DOMAIN waiting_workers
  /\ waiting_workers' = Insert(waiting_workers, w, NoExec)
  /\ reg_order' = Append(reg_order, w)
  /\ wpc' = [wpc EXCEPT ![w] = "registered"]
  /\ UNCHANGED <<notFifoVars, check_result, dag, client_sender, ready_execs, missing_deps,
                 dependents, file_keys, toClient, toServer, epc, efiles, wres, wjob,
                 clientVars>>

\* WorkerDone(result), under the lock: the worker leaves waiting_workers.
FifoWorkerDone(w) ==
  /\ wpc[w] = "running"
  /\ w \in DOMAIN waiting_workers /\ waiting_workers[w] # NoExec
  /\ client_sender
  /\ \E result \in BOOLEAN :
       /\ wres' = [wres EXCEPT ![w] = result]
       /\ toClient' = Append(toClient, [type |-> "NotifyDone",
                                        exec |-> waiting_workers[w], result |-> result])
  /\ wjob' = [wjob EXCEPT ![w] = waiting_workers[w]]
  /\ waiting_workers' = Remove(waiting_workers, w)
  /\ reg_order' = SelectSeq(reg_order, LAMBDA v : v # w)
  /\ wpc' = [wpc EXCEPT ![w] = "done"]
  /\ UNCHANGED <<notFifoVars, check_result, dag, client_sender, ready_execs, missing_deps,
                 dependents, file_keys, toServer, epc, efiles, clientVars>>

FifoNext ==
  \/ EvaluateRejected
  \/ EvaluateStore
  \/ EvaluateSetup
  \/ EvaluateFileReady
  \/ EvaluateSchedule
  \/ ServeAskFile
  \/ \E w \in Workers : FifoGetWork(w)
  \/ \E w \in Workers : GetWorkSchedule(w)
  \/ \E w \in Workers : wait_for_work(w)
  \/ \E w \in Workers : FifoWorkerDone(w)
  \/ \E w \in Workers : WorkerDoneExec(w)
  \/ CloseStart
  \/ ClientNotify
  \/ ClientError
  \/ ClientDone
  \/ ClientProvideFile

FifoSpec == Init /\ [][FifoNext]_vars

\* The place of a registered worker in the order of registration.
PlaceOf(w) == CHOOSE i \in 1..Len(reg_order) : reg_order[i] = w

\* C33: when a step fills the slot of a waiting worker and leaves the slot of
\* another waiting worker empty, the worker whose slot is filled registered
\* first.
C33_Fifo ==
  [][\A w \in FreeWorkers(waiting_workers), v \in FreeWorkers(waiting_workers) :
       (/\ w \in DOMAIN waiting_workers' /\ waiting_workers'[w] # NoExec
        /\ v \in DOMAIN waiting_workers' /\ waiting_workers'[v] = NoExec)
         => PlaceOf(w) < PlaceOf(v)]_vars

\* ------------------------------------------------- the hand-off of a slot

\* The wake-ups a condition variable may make without a notification.
MaxSpurious == 2

\* wait_for_work: the mutex of the slot is taken.
WaitLock(w) ==
  /\ hpc[w] = "start" /\ slot_lock[w] = "free"
  /\ slot_lock' = [slot_lock EXCEPT ![w] = "worker"]
  /\ hpc' = [hpc EXCEPT ![w] = "check"]
  /\ UNCHANGED <<serverVars, clientVars, toServer, notWakeVars, slot_job, got, fpc, spurious>>

\* wait_for_work, the test of the loop under the mutex: with a job it returns
\* it; without, cv.wait releases the mutex and sleeps, in one step.
WaitCheck(w) ==
  /\ hpc[w] = "check"
  /\ slot_lock' = [slot_lock EXCEPT ![w] = "free"]
  /\ IF slot_job[w] # NoExec
     THEN /\ hpc' = [hpc EXCEPT ![w] = "returned"]
          /\ got' = [got EXCEPT ![w] = slot_job[w]]
     ELSE /\ hpc' = [hpc EXCEPT ![w] = "waiting"]
          /\ UNCHANGED got
  /\ UNCHANGED <<serverVars, clientVars, toServer, notWakeVars, slot_job, fpc, spurious>>

\* A wake-up of cv.wait that no notification caused.
WaitSpurious(w) ==
  /\ hpc[w] = "waiting" /\ spurious < MaxSpurious
  /\ hpc' = [hpc EXCEPT ![w] = "woken"]
  /\ spurious' = spurious + 1
  /\ UNCHANGED <<serverVars, clientVars, toServer, notWakeVars, slot_job, slot_lock, got, fpc>>

\* A wait that returns the slot as it is once it is woken.
WaitWake_NoLoop(w) ==
  /\ hpc[w] = "woken" /\ slot_lock[w] = "free"
  /\ hpc' = [hpc EXCEPT ![w] = "returned"]
  /\ got' = [got EXCEPT ![w] = slot_job[w]]
  /\ UNCHANGED <<serverVars, clientVars, toServer, notWakeVars, slot_job, slot_lock, fpc,
                 spurious>>

\* cv.wait returns: the mutex is taken again and the loop tests the slot.
WaitWake(w) ==
  /\ hpc[w] = "woken" /\ slot_lock[w] = "free"
  /\ slot_lock' = [slot_lock EXCEPT ![w] = "worker"]
  /\ hpc' = [hpc EXCEPT ![w] = "check"]
  /\ UNCHANGED <<serverVars, clientVars, toServer, notWakeVars, slot_job, got, fpc, spurious>>

\* schedule(), the assignment: the mutex of the slot of a waiting worker is taken.
FillLock ==
  /\ fpc.pc = "idle"
  /\ \E w \in Workers, e \in Execs :
       /\ slot_job[w] = NoExec /\ slot_lock[w] = "free"
       /\ \A v \in Workers : slot_job[v] # e
       /\ slot_lock' = [slot_lock EXCEPT ![w] = "scheduler"]
       /\ fpc' = [pc |-> "locked", worker |-> w, exec |-> e]
  /\ UNCHANGED <<serverVars, clientVars, toServer, notWakeVars, slot_job, hpc, got, spurious>>

\* The execution is put in the slot and the mutex released.
FillSet ==
  /\ fpc.pc = "locked"
  /\ slot_job' = [slot_job EXCEPT ![fpc.worker] = fpc.exec]
  /\ slot_lock' = [slot_lock EXCEPT ![fpc.worker] = "free"]
  /\ fpc' = [fpc EXCEPT !.pc = "notify"]
  /\ UNCHANGED <<serverVars, clientVars, toServer, notWakeVars, hpc, got, spurious>>

\* The worker is signalled: a thread waiting on the condition variable wakes.
FillNotify ==
  /\ fpc.pc = "notify"
  /\ hpc' = [hpc EXCEPT ![fpc.worker] = IF @ = "waiting" THEN "woken" ELSE @]
  /\ fpc' = [fpc EXCEPT !.pc = "idle"]
  /\ UNCHANGED <<serverVars, clientVars, toServer, notWakeVars, slot_job, slot_lock, got,
                 spurious>>

WakeNext ==
  \/ \E w \in Workers : WaitLock(w)
  \/ \E w \in Workers : WaitCheck(w)
  \/ \E w \in Workers : WaitSpurious(w)
  \/ \E w \in Workers : WaitWake(w)
  \/ FillLock
  \/ FillSet
  \/ FillNotify

WakeSpec == Init /\ [][WakeNext]_vars

\* The signal for the slot of w is still to come.
NotifyPending(w) == fpc.pc = "notify" /\ fpc.worker = w

\* C34: wait_for_work returns the execution of its slot and never an empty
\* slot; a thread that sleeps on the condition variable of a filled slot has
\* its signal still to come, whether the slot was filled before it took the
\* mutex or while it slept; and when no step is left every filled slot has
\* been returned.
C34_NoLostWakeUp ==
  \A w \in Workers :
    /\ hpc[w] = "returned" => got[w] # NoExec /\ got[w] = slot_job[w]
    /\ (hpc[w] = "waiting" /\ slot_job[w] # NoExec) => NotifyPending(w)
    /\ (slot_job[w] # NoExec /\ fpc.pc = "idle" /\ \A v \in Workers : slot_lock[v] = "free")
         => hpc[w] \in {"start", "woken", "returned"}

C34_Witness ==
  /\ \E w \in Workers : hpc[w] = "returned" /\ spurious > 0
  /\ \E w \in Workers : hpc[w] = "waiting" /\ NotifyPending(w)
  /\ \E w \in Workers, v \in Workers : w # v /\ got[w] # NoExec /\ slot_job[v] # NoExec

\* --------------------------------------- writes to the client under the mutex

\* WorkerDone(result): with the guard of the state mutex alive, the slot is
\* read, the worker removed and NotifyDone written to client_sender.
LockWorkerDone(w) ==
  /\ wpc[w] = "running"
  /\ w \in DOMAIN waiting_workers /\ waiting_workers[w] # NoExec
  /\ client_sender
  /\ \E result \in BOOLEAN :
       /\ wres' = [wres EXCEPT ![w] = result]
       /\ toClient' = Append(toClient, [type |-> "NotifyDone",
                                        exec |-> waiting_workers[w], result |-> result])
  /\ locked_sends' = locked_sends \cup {[type |-> "NotifyDone", exec |-> waiting_workers[w]]}
  /\ wjob' = [wjob EXCEPT ![w] = waiting_workers[w]]
  /\ waiting_workers' = Remove(waiting_workers, w)
  /\ wpc' = [wpc EXCEPT ![w] = "done"]
  /\ UNCHANGED <<notLockVars, check_result, dag, client_sender, ready_execs, missing_deps,
                 dependents, file_keys, toServer, epc, efiles, clientVars>>

LockNext ==
  \/ EvaluateRejected
  \/ EvaluateStore
  \/ EvaluateSetup
  \/ EvaluateFileReady
  \/ EvaluateSchedule
  \/ ServeAskFile
  \/ \E w \in Workers : GetWork(w)
  \/ \E w \in Workers : GetWorkSchedule(w)
  \/ \E w \in Workers : wait_for_work(w)
  \/ \E w \in Workers : LockWorkerDone(w)
  \/ \E w \in Workers : WorkerDoneExec(w)
  \/ CloseStart
  \/ ClientNotify
  \/ ClientError
  \/ ClientDone
  \/ ClientProvideFile

LockSpec == Init /\ [][LockNext]_vars

\* C35: no message is written to the client channel by a thread that holds
\* the mutex of the scheduler state.
C35_NoSendUnderLock == locked_sends = {}

\* ------------------------------------------- the order of the notifications

\* Some message of the set js was sent before message i.
Earlier(js, i) == \E j \in js : j < i

\* The NotifyDone of e that report a success, and those that report a failure.
DoneOk(e) == {j \in SentFor("NotifyDone", e) : toClient[j].result}

DoneFailed(e) == {j \in SentFor("NotifyDone", e) : ~toClient[j].result}

\* C36, as stated: for every execution D that reads an output of E,
\* NotifyDone(E) is sent before NotifyStart(D) and before NotifySkip(D).
C36_DoneBeforeStartAndSkip ==
  Accepted =>
    \A d \in DagExecs(cdag) : \A e \in Parents(cdag, d) :
      \A i \in SentFor("NotifyStart", d) \cup SentFor("NotifySkip", d) :
        Earlier(SentFor("NotifyDone", e), i)

\* C36, amended: NotifyStart(D) comes after a successful NotifyDone(E) of every
\* execution E whose output D reads; NotifySkip(D) comes after the failing
\* NotifyDone or the NotifySkip of at least one such E.
C36_CausalOrder ==
  Accepted =>
    \A d \in DagExecs(cdag) :
      /\ \A i \in SentFor("NotifyStart", d) :
           \A e \in Parents(cdag, d) : Earlier(DoneOk(e), i)
      /\ \A i \in SentFor("NotifySkip", d) :
           \E e \in Parents(cdag, d) :
             Earlier(DoneFailed(e) \cup SentFor("NotifySkip", e), i)

C36_Witness ==
  /\ Accepted
  /\ \E d \in DagExecs(cdag) :
       /\ SentFor("NotifySkip", d) # {}
       /\ \E e \in Parents(cdag, d) :
            SentFor("NotifySkip", e) # {} /\ SentFor("NotifyDone", e) = {}

\* ------------------------------------------------- termination accounting
\*
\* The client of client.rs:122-226 with every local file store: the store
\* holds any subset of the files when Done arrives.

AskDone == ClientDoneWith(SUBSET Files)

AskNext ==
  \/ EvaluateRejected
  \/ EvaluateStore
  \/ EvaluateSetup
  \/ EvaluateFileReady
  \/ EvaluateSchedule
  \/ ServeAskFile
  \/ \E w \in Workers : GetWork(w)
  \/ \E w \in Workers : GetWorkSchedule(w)
  \/ \E w \in Workers : wait_for_work(w)
  \/ \E w \in Workers : WorkerDone(w)
  \/ \E w \in Workers : WorkerDoneExec(w)
  \/ ServerGone
  \/ CloseStart
  \/ ClientNotify
  \/ ClientError
  \/ AskDone
  \/ ClientProvideFile
  \/ ClientClosed

AskSpec == Init /\ [][AskNext]_vars

\* The positions of the messages of the given type the client has read.
ReadOf(type) == {i \in 1..cread : toClient[i].type = type}

\* The files listed by the Done at position i, and those of them the local
\* store does not hold.
ListedIn(i) == {toClient[i].files[k].file : k \in 1..Len(toClient[i].files)}
AskedFor(i) == ListedIn(i) \ local_store

\* The ProvideFile messages read after position i.
ProvidedAfter(i) == {j \in ReadOf("ProvideFile") : j > i}

\* The step that reads Done appends to the channel one AskFile for each listed
\* file the local store does not hold, and nothing else.
C37_Asks ==
  (cread' = cread + 1 /\ toClient[cread'].type = "Done") =>
    LET sent == SubSeq(toServer', Len(toServer) + 1, Len(toServer')) IN
      /\ \A k \in 1..Len(sent) : sent[k].type = "AskFile"
      /\ {sent[k].file : k \in 1..Len(sent)} = AskedFor(cread)'
      /\ Len(sent) = Cardinality(AskedFor(cread)')

\* evaluate has returned only after an Error, a closed channel or a Done; after
\* a Done (no Error, channel open) it has returned exactly when it has read as
\* many ProvideFile as it sent AskFile, and these were for the files asked for.
C37_Returns ==
  /\ cpc = "returned" =>
        \/ ReadOf("Error") # {}
        \/ ClientThread \in closed_seen
        \/ ReadOf("Done") # {}
  /\ \A i \in ReadOf("Done") :
        (ReadOf("Error") = {} /\ ClientThread \notin closed_seen) =>
          /\ cpc = "returned" <=>
                Cardinality(ProvidedAfter(i)) = Cardinality(AskedFor(i))
          /\ {toClient[j].file : j \in ProvidedAfter(i)} \subseteq AskedFor(i)
          /\ cpc = "returned" =>
                {toClient[j].file : j \in ProvidedAfter(i)} = AskedFor(i)

\* C37: on Done the client sends AskFile for exactly the listed files its
\* local store does not hold; its loop ends exactly when it has read one
\* ProvideFile for each of them (at once if there are none); it never returns
\* before Done while the channel is open and no Error was read, and never waits
\* for a file it did not ask for.
C37_Accounting == [][C37_Asks /\ C37_Returns']_vars

C37_Witness ==
  /\ cpc = "returned" /\ ClientThread \notin closed_seen
  /\ \E i \in ReadOf("Done") :
       /\ AskedFor(i) # {} /\ AskedFor(i) # ListedIn(i)
       /\ {toClient[j].file : j \in ProvidedAfter(i)} = AskedFor(i)

\* --------------------------------------------------- process_provided_file
\*
\* process_provided_file (client.rs:248-304) on a file streamed over the
\* channel (client.rs:150-157): the frames of the channel are the chunks of the
\* file, the end-of-stream sentinel and the next protocol message. The
\* filesystem may refuse to create the destination or to write to it.

MaxFileChunks == 2
MaxChunkLen == 2
MaxLimit == 2

\* The entries of file_callbacks for the file: none (cb FALSE), or a
\* FileCallbacks with an optional write_to and an optional get_content.
Registrations ==
  [cb : BOOLEAN, write_to : BOOLEAN, allow_failure : BOOLEAN, executable : BOOLEAN,
   get_content : BOOLEAN, limit : 0..MaxLimit]

ChunkFrames ==
  UNION {[1..n -> [type : {"Chunk"}, len : 1..MaxChunkLen]] : n \in 0..MaxFileChunks}

EndFrame == [type |-> "End", len |-> 0]
MessageFrame == [type |-> "Message", len |-> 0]

\* The destination before the call: absent, or a file left by an earlier run.
Destinations ==
  {[state |-> "absent", mode |-> "none", size |-> 0],
   [state |-> "old", mode |-> "0o644", size |-> 1]}

\* ProvideFile(uuid, success) was read: process_provided_file is called with
\* the iterator over the channel.
FileProvided ==
  /\ pf_pc = "idle"
  /\ \E r \in Registrations, success \in BOOLEAN, chunks \in ChunkFrames :
       pf_in' = [reg |-> r, success |-> success,
                 frames |-> chunks \o <<EndFrame, MessageFrame>>]
  /\ \E d \in Destinations : pf_dest' = d
  /\ pf_pc' = "open"
  /\ UNCHANGED <<serverVars, clientVars, toServer, notStreamVars, pf_pos, pf_file,
                 pf_buffer, pf_called, pf_read>>

\* A process_provided_file that drops the iterator of a file without callbacks.
FileNoCallback_Drops ==
  /\ pf_pc = "open" /\ ~pf_in.reg.cb
  /\ pf_pc' = "ok"
  /\ UNCHANGED <<serverVars, clientVars, toServer, notStreamVars, pf_in, pf_pos, pf_file,
                 pf_dest, pf_buffer, pf_called, pf_read>>

\* file_callbacks.get_mut(&uuid) is None: iterator.into_iter().last().
FileNoCallback ==
  /\ pf_pc = "open" /\ ~pf_in.reg.cb
  /\ pf_pos' = CHOOSE i \in 1..Len(pf_in.frames) :
                 /\ pf_in.frames[i].type = "End"
                 /\ \A j \in 1..(i - 1) : pf_in.frames[j].type = "Chunk"
  /\ pf_pc' = "ok"
  /\ UNCHANGED <<serverVars, clientVars, toServer, notStreamVars, pf_in, pf_file, pf_dest,
                 pf_buffer, pf_called, pf_read>>

\* The destination is opened: not at all without write_to or for a failed file
\* without allow_failure; otherwise File::create truncates it, or fails.
FileOpens == pf_in.reg.write_to /\ (pf_in.success \/ pf_in.reg.allow_failure)

FileOpen ==
  /\ pf_pc = "open" /\ pf_in.reg.cb
  /\ \/ /\ ~FileOpens
        /\ pf_pc' = "loop"
        /\ UNCHANGED <<pf_file, pf_dest>>
     \/ /\ FileOpens
        /\ pf_file' = TRUE
        /\ pf_dest' = [state |-> "created", mode |-> "0o644", size |-> 0]
        /\ pf_pc' = "loop"
     \/ /\ FileOpens
        /\ pf_pc' = "err"
        /\ UNCHANGED <<pf_file, pf_dest>>
  /\ UNCHANGED <<serverVars, clientVars, toServer, notStreamVars, pf_in, pf_pos,
                 pf_buffer, pf_called, pf_read>>

\* for chunk in iterator: the chunk is written to the open file (the write may
\* fail) and the buffer is filled up to the limit.
FileChunk ==
  /\ pf_pc = "loop" /\ pf_in.frames[pf_pos + 1].type = "Chunk"
  /\ pf_pos' = pf_pos + 1
  /\ LET len == pf_in.frames[pf_pos + 1].len
         limit == IF pf_in.reg.get_content THEN pf_in.reg.limit ELSE 0
     IN \/ /\ pf_dest' = IF pf_file THEN [pf_dest EXCEPT !.size = @ + len] ELSE pf_dest
           /\ pf_buffer' = IF pf_buffer < limit
                           THEN pf_buffer + Min(len, limit - pf_buffer)
                           ELSE pf_buffer
           /\ UNCHANGED pf_pc
        \/ /\ pf_file
           /\ pf_pc' = "err"
           /\ UNCHANGED <<pf_dest, pf_buffer>>
  /\ UNCHANGED <<serverVars, clientVars, toServer, notStreamVars, pf_in, pf_file,
                 pf_called, pf_read>>

\* The iterator ends at the sentinel; drop(file); the permissions of an
\* executable destination are set, which fails when the path does not exist.
FileEnd ==
  /\ pf_pc = "loop" /\ pf_in.frames[pf_pos + 1].type = "End"
  /\ pf_pos' = pf_pos + 1
  /\ pf_file' = FALSE
  /\ IF pf_in.reg.write_to /\ pf_in.reg.executable
     THEN IF pf_dest.state = "absent"
          THEN pf_pc' = "err" /\ UNCHANGED pf_dest
          ELSE pf_pc' = "content" /\ pf_dest' = [pf_dest EXCEPT !.mode = "0o755"]
     ELSE pf_pc' = "content" /\ UNCHANGED pf_dest
  /\ UNCHANGED <<serverVars, clientVars, toServer, notStreamVars, pf_in, pf_buffer,
                 pf_called, pf_read>>

\* callback.get_content.take(): the handler is called with the buffer.
FileContent ==
  /\ pf_pc = "content"
  /\ pf_called' = pf_in.reg.get_content
  /\ pf_pc' = "ok"
  /\ UNCHANGED <<serverVars, clientVars, toServer, notStreamVars, pf_in, pf_pos, pf_file,
                 pf_dest, pf_buffer, pf_read>>

\* Ok(()) was returned: the loop of evaluate reads the next frame as a message.
FileNextMessage ==
  /\ pf_pc = "ok"
  /\ pf_read' = pf_in.frames[pf_pos + 1].type
  /\ pf_pc' = "read"
  /\ UNCHANGED <<serverVars, clientVars, toServer, notStreamVars, pf_in, pf_pos, pf_file,
                 pf_dest, pf_buffer, pf_called>>

StreamNext ==
  \/ FileProvided
  \/ FileNoCallback
  \/ FileOpen
  \/ FileChunk
  \/ FileEnd
  \/ FileContent
  \/ FileNextMessage

StreamSpec == Init /\ [][StreamNext]_vars

\* The bytes of the chunks of the stream.
RECURSIVE FileLen(_)
FileLen(frames) ==
  IF frames = << >> \/ Head(frames).type # "Chunk" THEN 0
  ELSE Head(frames).len + FileLen(Tail(frames))

\* C38: when process_provided_file has returned Ok the whole stream of the
\* file, sentinel included, has been read, with or without a callback, for both
\* values of success and whether or not the limit was reached; the frame read
\* next is the protocol message that follows the file.
C38_ConsumesStream ==
  /\ pf_pc \in {"ok", "read"} => (pf_pos > 0 /\ pf_in.frames[pf_pos] = EndFrame)
  /\ pf_pc = "read" => pf_read = "Message"

C38_Witness ==
  /\ pf_pc = "read"
  /\ pf_in.reg.cb /\ pf_in.reg.get_content /\ ~pf_in.success
  /\ pf_buffer = pf_in.reg.limit /\ FileLen(pf_in.frames) > pf_in.reg.limit

\* C39: a file with a write_to registration delivered with success false and
\* allow_failure false leaves the destination as it was and the function
\* returns Ok, whatever the executable flag; the get_content handler, if any, is
\* called.
C39_FailedFile ==
  (/\ pf_pc \in {"ok", "err", "read"}
   /\ pf_in.reg.cb /\ pf_in.reg.write_to
   /\ ~pf_in.success /\ ~pf_in.reg.allow_failure) =>
    /\ pf_pc # "err"
    /\ pf_dest \in Destinations
    /\ pf_in.reg.get_content => pf_called

\* ------------------------------------------------------ the status poller

\* A step taken after evaluate has returned: the poller was told to stop, has
\* ended, and the step sends no Status.
AfterReturn ==
  tpc \in {"returned", "failed"} =>
    (done /\ ppc = "ended" /\ Frames("Status")' = Frames("Status"))

\* C40: once evaluate has returned, by Ok or by an error, the status poller has
\* been told to stop and has ended, and no Status is sent on the channel.
C40_PollerStopped == [][AfterReturn]_vars

====
